---- MODULE Spec2Model ----
(***************************************************************************)
(* A model of the trust and coordination core of kenpire:                  *)
(*   SecurityHardening (API keys, rate limiting, security event log),      *)
(*   ProofLock (proof of work) and MeshOrchestrator (threshold consensus), *)
(* with the request layer of server.py, SmartCardOrchestrator, and         *)
(* CacheUtils and RetryUtils of utils.py.                                  *)
(* Source: src/src/kenpire/core/security.py, src/src/kenpire/core/mesh.py, *)
(*   src/src/kenpire/core/smart_cards.py, src/src/kenpire/server.py,       *)
(*   src/src/kenpire/utils.py                                              *)
(***************************************************************************)
EXTENDS Integers, Sequences, FiniteSets, TLC

VARIABLES
    api_keys,         \* SecurityHardening.api_keys: token -> key_data
    security_events,  \* SecurityHardening.security_events, oldest first
    log_base,         \* history: the number of events logged before the explored calls
    logged,           \* history: the event types the explored calls logged, in order
    now_dt,           \* the wall clock datetime.now() reads, in days
    frames,           \* thread -> the frame of its validate_api_key call
    last,             \* the last completed call: operation, arguments, result
    issued,           \* history: token -> the arguments of the call that issued it
    valid_returns,    \* history: token -> number of validate calls that returned valid
    rate_limits,      \* SecurityHardening.rate_limits: identifier -> list of timestamps
    now_ts,           \* the wall clock time.time() reads, in seconds
    calls,            \* history: identifier -> the apply_rate_limiting calls, in order
    difficulty,       \* ProofLock.difficulty
    target,           \* ProofLock.target
    proof_slot,       \* the proof a caller holds: the last one generate_proof returned
    nodes,            \* MeshOrchestrator.nodes: (node_id, node dict) in insertion order
    node_dicts,       \* the node dicts ever created, by reference
    mesh_stats,       \* MeshOrchestrator.mesh_stats
    coros,            \* task -> the frame of its achieve_consensus coroutine
    completed,        \* history: achieve_consensus calls completed that found an active node
    votes_tallied,    \* history: the votes the completed achieve_consensus calls returned, in all
    cache,            \* CacheUtils.cache: key -> entry (value, expires)
    default_ttl,      \* CacheUtils.default_ttl
    live_set,         \* history: key -> the last set call on it, if no delete or clear followed
    retry,            \* the frame of the wrapper retry_with_backoff returned
    retry_log,        \* history: the invocations and sleeps of the wrapper call, in order
    cards,            \* the SmartNarrativeCard objects ever created, by reference
    active_cards,     \* SmartCardOrchestrator.active_cards: card_id -> card
    processed_cards,  \* SmartCardOrchestrator.processed_cards: card_id -> card
    card_stats,       \* SmartCardOrchestrator.stats
    card_tasks,       \* task -> the frame of its process_card coroutine
    card_done         \* history: the process_card calls that returned or raised

eventLog == <<security_events, log_base, logged>>
credOnly == <<api_keys, now_dt, issued, valid_returns>>
rateOnly == <<rate_limits, now_ts, calls>>

powOnly == <<difficulty, target, proof_slot>>

meshOnly == <<nodes, node_dicts, mesh_stats, coros, completed, votes_tallied>>

cacheOnly == <<cache, default_ttl, live_set>>

retryOnly == <<retry, retry_log>>

cardsOnly == <<cards, active_cards, processed_cards, card_stats, card_tasks, card_done>>

utilOnly == <<cacheOnly, retryOnly>>

vars == <<eventLog, frames, last, credOnly, rateOnly, powOnly, meshOnly, utilOnly, cardsOnly>>

\* what the operations on API keys leave alone, what those on rate limits do,
\* and what those of ProofLock do
notCred == <<rateOnly, powOnly, meshOnly, utilOnly, cardsOnly>>
notRate == <<credOnly, powOnly, meshOnly, utilOnly, cardsOnly>>
notPow == <<eventLog, frames, credOnly, rateOnly, meshOnly, utilOnly, cardsOnly>>
notMesh == <<eventLog, frames, credOnly, rateOnly, powOnly, utilOnly, cardsOnly>>
notCache == <<eventLog, frames, credOnly, rateOnly, powOnly, meshOnly, retryOnly, cardsOnly>>
notRetry == <<eventLog, frames, credOnly, rateOnly, powOnly, meshOnly, cacheOnly, cardsOnly>>
notCards == <<eventLog, frames, credOnly, rateOnly, powOnly, meshOnly, utilOnly>>

(***************************************************************************)
(* Python values                                                           *)
(***************************************************************************)
\* None and a present value: an optional argument or field is {} or {x}.
None == {}
Some(x) == {x}
TheVal(o) == CHOOSE x \in o : TRUE

\* x in list
InList(x, list) == \E i \in 1..Len(list) : list[i] = x

\* Python truthiness of an optional string: None and "" are falsy.
Truthy(o) == o # None /\ TheVal(o) # ""

(***************************************************************************)
(* Bounds of the model and the sets the inputs are drawn from              *)
(***************************************************************************)
MaxUses == 2          \* successful validations explored per token
MaxFailures == 1      \* failed validations explored per run

TokenOrder == <<"kp_A", "kp_B">>        \* values of f"kp_{secrets.token_urlsafe(32)}"
Tokens == {TokenOrder[i] : i \in 1..Len(TokenOrder)}
UnknownToken == "kp_never_issued"
Users == {"alice", "bob"}
PermissionArgs == {None, Some(<<>>), Some(<<"admin">>)}
RequiredArgs == {None, Some(""), Some("admin")}
Threads == {"t1", "t2"}

(***************************************************************************)
(* SecurityHardening                                                       *)
(***************************************************************************)
KeyLifetimeDays == 90
LogCapacity == 1000

\* The days the clock is observed at: the day of issue, the day of expiry, the day after.
Instants == {0, KeyLifetimeDays, KeyLifetimeDays + 1}

\* a log that keeps the oldest 1000 events and drops the new one when full
LogSecurityEvent_KeepOldest(events, event_type) ==
    LET appended == Append(events, event_type)
    IN  IF Len(appended) > LogCapacity
        THEN SubSeq(appended, 1, LogCapacity)
        ELSE appended

\* _log_security_event: append, then keep only the last 1000 events.
LogSecurityEvent(events, event_type) ==
    LET appended == Append(events, event_type)
    IN  IF Len(appended) > LogCapacity
        THEN SubSeq(appended, Len(appended) - LogCapacity + 1, Len(appended))
        ELSE appended

\* a call that logs nothing
Log_Nothing(event_type) == UNCHANGED eventLog

\* a call of self._log_security_event(event_type, ...)
Log(event_type) ==
    /\ security_events' = LogSecurityEvent(security_events, event_type)
    /\ logged' = Append(logged, event_type)
    /\ UNCHANGED log_base

\* a generator that returns the same token every time
TokenUrlsafe_Reused(keys) == {TokenOrder[1]}

\* secrets.token_urlsafe(32): 256 random bits, so a token not yet in the store;
\* tokens are opaque, so the unused ones are taken in a fixed order.
TokenUrlsafe(keys) ==
    {TokenOrder[i] : i \in {j \in 1..Len(TokenOrder) : j = Cardinality(DOMAIN keys) + 1}}

\* generate_api_key, the permissions default (lines 34-35)
DefaultPermissions(permissions) ==
    IF permissions = None THEN <<"basic_access">> ELSE TheVal(permissions)

\* a key_data that forgets the permissions it was given
KeyData_DefaultOnly(user_id, permissions, t) ==
    [user_id |-> user_id,
     permissions |-> <<"basic_access">>,
     created_at |-> t,
     expires_at |-> t + KeyLifetimeDays,
     last_used |-> None,
     usage_count |-> 0]

\* a key_data that expires the moment it is created
KeyData_NoLifetime(user_id, permissions, t) ==
    [user_id |-> user_id,
     permissions |-> permissions,
     created_at |-> t,
     expires_at |-> t,
     last_used |-> None,
     usage_count |-> 0]

\* generate_api_key, the key_data record (lines 39-46); isoformat() and
\* fromisoformat() round-trip a naive datetime exactly, so instants are kept as days.
KeyData(user_id, permissions, t) ==
    [user_id |-> user_id,
     permissions |-> permissions,
     created_at |-> t,
     expires_at |-> t + KeyLifetimeDays,
     last_used |-> None,
     usage_count |-> 0]

\* self.api_keys[api_key] = key_data
StoreKey(keys, api_key, key_data) ==
    [k \in DOMAIN keys \cup {api_key} |-> IF k = api_key THEN key_data ELSE keys[k]]

GenerateApiKey(user_id, permissions, api_key) ==
    /\ \A t \in Threads : frames[t].pc = "idle"
    /\ api_keys' = StoreKey(api_keys, api_key,
                            KeyData(user_id, DefaultPermissions(permissions), now_dt))
    /\ Log("api_key_generated")
    /\ issued' = StoreKey(issued, api_key,
                          [user_id |-> user_id, permissions |-> permissions, at |-> now_dt])
    /\ valid_returns' = StoreKey(valid_returns, api_key, 0)
    /\ last' = [op |-> "generate_api_key", ret |-> api_key]
    /\ UNCHANGED <<now_dt, frames>>
    /\ UNCHANGED notCred

\* the checks with a key expired from the day of expiry on (>= for >)
ValidateOutcome_ExpiredAtExpiry(keys, api_key, required_permission, t) ==
    IF api_key \notin DOMAIN keys THEN "invalid_api_key"
    ELSE IF t >= keys[api_key].expires_at THEN "expired_api_key"
    ELSE IF /\ Truthy(required_permission)
            /\ ~InList(TheVal(required_permission), keys[api_key].permissions)
         THEN "insufficient_permissions"
    ELSE "ok"

\* validate_api_key, lines 66-95: the three checks, in the order the code makes them.
ValidateOutcome(keys, api_key, required_permission, t) ==
    IF api_key \notin DOMAIN keys THEN "invalid_api_key"
    ELSE IF t > keys[api_key].expires_at THEN "expired_api_key"
    ELSE IF /\ Truthy(required_permission)
            /\ ~InList(TheVal(required_permission), keys[api_key].permissions)
         THEN "insufficient_permissions"
    ELSE "ok"

\* the dict validate_api_key returns
ValidateReturn(keys, api_key, required_permission, outcome) ==
    CASE outcome = "invalid_api_key" -> [valid |-> FALSE, reason |-> "Invalid API key"]
      [] outcome = "expired_api_key" -> [valid |-> FALSE, reason |-> "API key expired"]
      [] outcome = "insufficient_permissions" ->
            [valid |-> FALSE, reason |-> "Missing permission", missing |-> required_permission]
      [] outcome = "ok" ->
            [valid |-> TRUE,
             user_id |-> keys[api_key].user_id,
             permissions |-> keys[api_key].permissions]

\* the number of failed validations among the events
Failures(events) ==
    Cardinality({i \in 1..Len(events) :
                    events[i] \in {"invalid_api_key", "expired_api_key",
                                   "insufficient_permissions"}})

\* an update that counts the use twice
UpdateUsage_Twice(key_data, t) ==
    [key_data EXCEPT !.last_used = Some(t), !.usage_count = @ + 2]

\* validate_api_key, lines 97-99: update usage statistics
UpdateUsage(key_data, t) ==
    [key_data EXCEPT !.last_used = Some(t), !.usage_count = @ + 1]

\* validate_api_key called with no other call in progress: the whole handler.
ValidateApiKey(api_key, required_permission) ==
    LET outcome == ValidateOutcome(api_keys, api_key, required_permission, now_dt)
    IN  /\ \A t \in Threads : frames[t].pc = "idle"
        /\ IF outcome = "ok"
           THEN /\ valid_returns[api_key] < MaxUses
                /\ api_keys' = [api_keys EXCEPT ![api_key] = UpdateUsage(@, now_dt)]
                /\ valid_returns' = [valid_returns EXCEPT ![api_key] = @ + 1]
                /\ UNCHANGED eventLog
           ELSE /\ Failures(logged) < MaxFailures
                /\ Log(outcome)
                /\ UNCHANGED <<api_keys, valid_returns>>
        /\ last' = [op |-> "validate_api_key",
                    api_key |-> api_key,
                    required_permission |-> required_permission,
                    at |-> now_dt,
                    before |-> IF api_key \in DOMAIN api_keys
                               THEN Some(api_keys[api_key]) ELSE None,
                    ret |-> ValidateReturn(api_keys, api_key, required_permission, outcome)]
        /\ UNCHANGED <<now_dt, frames, issued>>
        /\ UNCHANGED notCred

\* the clock moves on between calls
TickDay ==
    /\ \E t \in Instants : t > now_dt /\ now_dt' = t
    /\ UNCHANGED <<api_keys, eventLog, frames, last, issued, valid_returns>>
    /\ UNCHANGED notCred

IdleFrame == [pc |-> "idle"]

\* "0" * difficulty (line 185)
RECURSIVE Repeat(_, _)
Repeat(str, n) == IF n <= 0 THEN "" ELSE str \o Repeat(str, n - 1)

DefaultDifficulty == 4

Tasks == {"task1", "task2"}

\* CacheUtils.__init__: default_ttl: int = 300
DefaultTtl == 300

\* the log after n calls of validate_api_key with a token that was never issued
Rejected(n) == [i \in 1..n |-> "invalid_api_key"]

\* SecurityHardening(), ProofLock(d) and MeshOrchestrator(), then n unknown tokens rejected
InitState(d, n) ==
    /\ api_keys = <<>>
    /\ security_events = Rejected(n)
    /\ log_base = n
    /\ logged = <<>>
    /\ now_dt = 0
    /\ frames = [t \in Threads |-> IdleFrame]
    /\ last = [op |-> "init"]
    /\ issued = <<>>
    /\ valid_returns = <<>>
    /\ rate_limits = <<>>
    /\ now_ts = 0
    /\ calls = <<>>
    /\ difficulty = d
    /\ target = Repeat("0", d)
    /\ proof_slot = None
    /\ nodes = <<>>
    /\ node_dicts = <<>>
    /\ mesh_stats = [active_nodes |-> 0, consensus_achieved |-> 0, failed_consensus |-> 0]
    /\ coros = [c \in Tasks |-> IdleFrame]
    /\ completed = 0
    /\ votes_tallied = 0
    /\ cache = <<>>
    /\ default_ttl = DefaultTtl
    /\ live_set = <<>>
    /\ retry = IdleFrame
    /\ retry_log = <<>>
    /\ cards = <<>>
    /\ active_cards = <<>>
    /\ processed_cards = <<>>
    /\ card_stats = [total_processed |-> 0, successful_processing |-> 0,
                     failed_processing |-> 0]
    /\ card_tasks = [c \in Tasks |-> IdleFrame]
    /\ card_done = 0

\* SecurityHardening(), ProofLock(d), MeshOrchestrator() and CacheUtils()
InitWith(d) == InitState(d, 0)

(***************************************************************************)
(* validate_api_key run by threads: the steps between which CPython may    *)
(* switch threads.  The method takes no lock.                              *)
(***************************************************************************)
\* the calls of the token that passed the checks and have not returned yet
InProgress(api_key) ==
    Cardinality({t \in Threads : frames[t].pc # "idle" /\ frames[t].api_key = api_key})

\* lines 66-95: the checks; a failed check logs and returns
ValidateEnter(t, api_key, required_permission) ==
    LET outcome == ValidateOutcome(api_keys, api_key, required_permission, now_dt)
    IN  /\ frames[t].pc = "idle"
        /\ IF outcome = "ok"
           THEN /\ valid_returns[api_key] + InProgress(api_key) < MaxUses
                /\ frames' = [frames EXCEPT ![t] =
                                 [pc |-> "update",
                                  api_key |-> api_key,
                                  required_permission |-> required_permission,
                                  at |-> now_dt]]
                /\ UNCHANGED <<eventLog, last>>
           ELSE /\ Failures(logged) < MaxFailures
                /\ Log(outcome)
                /\ last' = [op |-> "validate_api_key",
                            api_key |-> api_key,
                            required_permission |-> required_permission,
                            at |-> now_dt,
                            before |-> IF api_key \in DOMAIN api_keys
                                       THEN Some(api_keys[api_key]) ELSE None,
                            ret |-> ValidateReturn(api_keys, api_key,
                                                   required_permission, outcome)]
                /\ UNCHANGED frames
        /\ UNCHANGED <<api_keys, now_dt, issued, valid_returns>>
        /\ UNCHANGED notCred

\* line 98, and the read of key_data["usage_count"] that line 99 starts with
ValidateLoad(t) ==
    /\ frames[t].pc = "update"
    /\ api_keys' = [api_keys EXCEPT ![frames[t].api_key].last_used = Some(now_dt)]
    /\ frames' = [frames EXCEPT ![t] =
                     [pc |-> "store",
                      api_key |-> @.api_key,
                      required_permission |-> @.required_permission,
                      at |-> @.at,
                      loaded |-> api_keys[@.api_key].usage_count]]
    /\ UNCHANGED <<eventLog, now_dt, last, issued, valid_returns>>
    /\ UNCHANGED notCred

\* line 99, the write of the incremented count, and the return (lines 101-105)
ValidateStore(t) ==
    LET f == frames[t]
    IN  /\ f.pc = "store"
        /\ api_keys' = [api_keys EXCEPT ![f.api_key].usage_count = f.loaded + 1]
        /\ valid_returns' = [valid_returns EXCEPT ![f.api_key] = @ + 1]
        /\ last' = [op |-> "validate_api_key",
                    api_key |-> f.api_key,
                    required_permission |-> f.required_permission,
                    at |-> f.at,
                    before |-> Some(api_keys[f.api_key]),
                    ret |-> ValidateReturn(api_keys, f.api_key, f.required_permission, "ok")]
        /\ frames' = [frames EXCEPT ![t] = IdleFrame]
        /\ UNCHANGED <<eventLog, now_dt, issued>>
        /\ UNCHANGED notCred

Init == InitWith(DefaultDifficulty)

NextCred ==
    \/ \E u \in Users, p \in PermissionArgs, k \in TokenUrlsafe(api_keys) :
          GenerateApiKey(u, p, k)
    \/ \E k \in Tokens \cup {UnknownToken}, r \in RequiredArgs : ValidateApiKey(k, r)
    \/ TickDay

SpecCred == Init /\ [][NextCred]_vars

(***************************************************************************)
(* server.py: the FastAPI application over the module's global             *)
(* SecurityHardening instance (line 21).                                   *)
(***************************************************************************)
\* the routes without and with Depends(verify_api_key)
PublicEndpoints == {"/health", "/ready"}
ProtectedEndpoints == {"/api/v1/status", "/api/v1/cards/process",
                       "/api/v1/ai/orchestrate", "/api/v1/mesh/consensus"}

\* the Authorization header of a request: absent, or Bearer <token>
Bearers == {None} \cup {Some(k) : k \in Tokens \cup {UnknownToken}}

\* a request to a public route: the handler runs, no dependency is resolved
PublicRequest(endpoint, bearer) ==
    /\ \A t \in Threads : frames[t].pc = "idle"
    /\ last' = [op |-> "request", endpoint |-> endpoint, bearer |-> bearer,
                at |-> now_dt, validation |-> None, handler_ran |-> TRUE]
    /\ UNCHANGED <<api_keys, eventLog, now_dt, frames, issued, valid_returns>>
    /\ UNCHANGED notCred

\* a request to a protected route without credentials: HTTPBearer() (line 18) answers
\* before verify_api_key is entered
NoBearerRequest(endpoint) ==
    /\ \A t \in Threads : frames[t].pc = "idle"
    /\ last' = [op |-> "request", endpoint |-> endpoint, bearer |-> None,
                at |-> now_dt, validation |-> None, handler_ran |-> FALSE]
    /\ UNCHANGED <<api_keys, eventLog, now_dt, frames, issued, valid_returns>>
    /\ UNCHANGED notCred

\* a request to a protected route: verify_api_key (lines 49-59) calls
\* validate_api_key(token) and raises 401 unless it is valid; then the handler runs.
\* No other method of security_hardening is called on the way.
ProtectedRequest(endpoint, token) ==
    LET outcome == ValidateOutcome(api_keys, token, None, now_dt)
        validation == ValidateReturn(api_keys, token, None, outcome)
    IN  /\ \A t \in Threads : frames[t].pc = "idle"
        /\ IF outcome = "ok"
           THEN /\ valid_returns[token] < MaxUses
                /\ api_keys' = [api_keys EXCEPT ![token] = UpdateUsage(@, now_dt)]
                /\ valid_returns' = [valid_returns EXCEPT ![token] = @ + 1]
                /\ UNCHANGED eventLog
           ELSE /\ Failures(logged) < MaxFailures
                /\ Log(outcome)
                /\ UNCHANGED <<api_keys, valid_returns>>
        /\ last' = [op |-> "request", endpoint |-> endpoint, bearer |-> Some(token),
                    at |-> now_dt, validation |-> Some(validation),
                    handler_ran |-> validation.valid]
        /\ UNCHANGED <<now_dt, frames, issued>>
        /\ UNCHANGED notCred

\* Keys are issued on the global instance (no route issues one); then requests arrive.
NextServer ==
    \/ \E u \in Users, k \in TokenUrlsafe(api_keys) : GenerateApiKey(u, None, k)
    \/ \E e \in PublicEndpoints, b \in Bearers : PublicRequest(e, b)
    \/ \E e \in ProtectedEndpoints : NoBearerRequest(e)
    \/ \E e \in ProtectedEndpoints, k \in Tokens \cup {UnknownToken} : ProtectedRequest(e, k)
    \/ TickDay

SpecServer == Init /\ [][NextServer]_vars

\* The threads race on one token: one key is issued, to any user.
NextCredThreads ==
    \/ \E u \in Users, k \in TokenUrlsafe(api_keys) \cap {TokenOrder[1]} :
          GenerateApiKey(u, None, k)
    \/ \E t \in Threads, k \in {TokenOrder[1], UnknownToken}, r \in RequiredArgs :
          ValidateEnter(t, k, r)
    \/ \E t \in Threads : ValidateLoad(t)
    \/ \E t \in Threads : ValidateStore(t)
    \/ TickDay

SpecCredThreads == Init /\ [][NextCredThreads]_vars

(***************************************************************************)
(* Claims about the credential store                                       *)
(***************************************************************************)
AllIdle == \A t \in Threads : frames[t].pc = "idle"

\* C1: after N concurrent validate calls on one token have all returned valid,
\* the token's usage_count is exactly N: no increment is lost.
C1_NoLostIncrement ==
    AllIdle => \A k \in DOMAIN api_keys : api_keys[k].usage_count = valid_returns[k]

\* C4: validating, before its expiry and with no required permission, the token
\* that generate_api_key(user_id, C) returned gives valid with exactly that user_id
\* and exactly the permissions C, whatever else was issued or validated meanwhile.
C4_IssueThenValidate ==
    \A k \in DOMAIN issued :
        (/\ last.op = "validate_api_key"
         /\ last.api_key = k
         /\ last.required_permission = None
         /\ issued[k].permissions # None
         /\ last.at < issued[k].at + KeyLifetimeDays)
        => last.ret = [valid |-> TRUE,
                       user_id |-> issued[k].user_id,
                       permissions |-> TheVal(issued[k].permissions)]

C4_Witness ==
    /\ last.op = "validate_api_key"
    /\ last.required_permission = None
    /\ last.api_key \in DOMAIN issued
    /\ issued[last.api_key].permissions = Some(<<"admin">>)
    /\ last.ret.valid
    /\ \E k \in DOMAIN issued :
          /\ k # last.api_key
          /\ issued[k].user_id # issued[last.api_key].user_id
          /\ valid_returns[k] >= 1

ExpiredReturn == [valid |-> FALSE, reason |-> "API key expired"]

\* C5: for an issued token validate returns the expired failure exactly when the
\* call is made at now > expires_at (at now = expires_at it is not expired), and an
\* expired validation leaves usage_count and last_used as they were.
C5_ExpiredOnlyAfterExpiry ==
    (last.op = "validate_api_key" /\ last.api_key \in DOMAIN issued) =>
        LET before == TheVal(last.before)
        IN  /\ (last.ret = ExpiredReturn) <=> (last.at > before.expires_at)
            /\ (last.ret = ExpiredReturn) =>
                  /\ api_keys[last.api_key].usage_count = before.usage_count
                  /\ api_keys[last.api_key].last_used = before.last_used

C5_Witness ==
    /\ last.op = "validate_api_key"
    /\ last.api_key \in DOMAIN issued
    /\ last.ret = ExpiredReturn
    /\ TheVal(last.before).usage_count >= 1
    /\ api_keys[last.api_key].last_used # None

\* C6: validate succeeds iff the token is known, now <= expires_at and the required
\* permission is not given or is in the permissions; otherwise it returns the first
\* failing kind in the order invalid, expired, insufficient.
C6_ValidateDecision ==
    (last.op = "validate_api_key") =>
        LET k == last.api_key
            r == last.required_permission
        IN  IF k \notin DOMAIN issued
            THEN last.ret = [valid |-> FALSE, reason |-> "Invalid API key"]
            ELSE LET before == TheVal(last.before)
                 IN  IF last.at > before.expires_at
                     THEN last.ret = ExpiredReturn
                     ELSE IF r # None /\ ~InList(TheVal(r), before.permissions)
                     THEN last.ret = [valid |-> FALSE, reason |-> "Missing permission",
                                      missing |-> r]
                     ELSE last.ret = [valid |-> TRUE,
                                      user_id |-> before.user_id,
                                      permissions |-> before.permissions]

\* a step of generate_api_key: it logs api_key_generated
IssueStep ==
    /\ Len(logged') = Len(logged) + 1
    /\ logged'[Len(logged')] = "api_key_generated"

\* the fields of a key_data that identify the credential
Identity(key_data) ==
    [user_id |-> key_data.user_id,
     permissions |-> key_data.permissions,
     created_at |-> key_data.created_at,
     expires_at |-> key_data.expires_at]

\* C23: through every generate_api_key and validate_api_key call every token issued
\* so far stays in api_keys with the user_id, permissions and expires_at it was
\* created with, and generate_api_key returns a token that was not in api_keys: it
\* adds one record and replaces none.
C23_OneCredentialPerToken ==
    [][/\ \A k \in DOMAIN api_keys :
              /\ k \in DOMAIN api_keys'
              /\ Identity(api_keys'[k]) = Identity(api_keys[k])
       /\ IssueStep =>
              /\ last'.ret \notin DOMAIN api_keys
              /\ DOMAIN api_keys' = DOMAIN api_keys \cup {last'.ret}]_vars

C23_Witness ==
    /\ last.op = "generate_api_key"
    /\ DOMAIN api_keys = Tokens
    /\ \E k \in Tokens :
          /\ k # last.ret
          /\ api_keys[k].user_id # api_keys[last.ret].user_id
          /\ api_keys[k].permissions # api_keys[last.ret].permissions
          /\ api_keys[k].usage_count >= 1
          /\ api_keys[k].expires_at < api_keys[last.ret].expires_at

\* C24: every stored key_data has expires_at > created_at, and straight after
\* generate_api_key the new key_data has usage_count 0 and last_used None.
C24_ExpiresAfterIssue ==
    /\ \A k \in DOMAIN api_keys : api_keys[k].expires_at > api_keys[k].created_at
    /\ (last.op = "generate_api_key") =>
           /\ api_keys[last.ret].usage_count = 0
           /\ api_keys[last.ret].last_used = None

C24_Witness ==
    /\ last.op = "generate_api_key"
    /\ api_keys[last.ret].created_at = KeyLifetimeDays
    /\ api_keys[last.ret].expires_at = 2 * KeyLifetimeDays
    /\ \E k \in DOMAIN api_keys : api_keys[k].usage_count = MaxUses

\* C27: with calls made one at a time, the usage_count of every key is the number of
\* validate_api_key calls on it that returned valid; a failed call changes no field
\* of any key, and a successful call changes only last_used and usage_count of its
\* own key.
C27_ValidateFrame ==
    /\ [](\A k \in DOMAIN api_keys : api_keys[k].usage_count = valid_returns[k])
    /\ [][(now_dt' = now_dt /\ ~IssueStep) =>
             LET k == last'.api_key
             IN  /\ last'.op = "validate_api_key"
                 /\ DOMAIN api_keys' = DOMAIN api_keys
                 /\ \A j \in DOMAIN api_keys \ {k} : api_keys'[j] = api_keys[j]
                 /\ IF last'.ret.valid
                    THEN /\ Identity(api_keys'[k]) = Identity(api_keys[k])
                         /\ api_keys'[k].usage_count = api_keys[k].usage_count + 1
                    ELSE api_keys' = api_keys]_vars

C27_Witness ==
    /\ last.op = "validate_api_key"
    /\ ~last.ret.valid
    /\ last.ret.reason = "Missing permission"
    /\ api_keys[last.api_key].usage_count = MaxUses
    /\ \E j \in DOMAIN api_keys : j # last.api_key /\ api_keys[j].usage_count = 1

\* C14: generate_api_key stores the permissions ["basic_access"] both when the
\* permissions argument is omitted and when it is an empty list; no key is ever
\* stored with empty permissions.
C14_EmptyMeansDefault ==
    \A k \in DOMAIN issued :
        /\ issued[k].permissions \in {None, Some(<<>>)}
              => api_keys[k].permissions = <<"basic_access">>
        /\ api_keys[k].permissions # <<>>

(***************************************************************************)
(* SecurityHardening.apply_rate_limiting                                   *)
(***************************************************************************)
MaxCalls == 3         \* apply_rate_limiting calls explored per run
MaxTime == 3          \* seconds of clock explored per run

Identifiers == {"10.0.0.1", "10.0.0.2"}
Limits == {1, 2}
Windows == {1, 2}

\* a lookup that ignores the identifier: every caller shares one stored list
WindowOf_Shared(limits, identifier) ==
    IF DOMAIN limits = {} THEN <<>> ELSE limits[CHOOSE i \in DOMAIN limits : TRUE]

\* lines 114-115: the stored list, an empty one when the identifier is new
WindowOf(limits, identifier) ==
    IF identifier \in DOMAIN limits THEN limits[identifier] ELSE <<>>

\* the calls recorded for the identifier, none when it was never called
HistoryOf(history, identifier) ==
    IF identifier \in DOMAIN history THEN history[identifier] ELSE <<>>

\* a prune that keeps nothing
Prune_KeepNone(timestamps, window_start) == <<>>

\* lines 118-122: keep the timestamps newer than window_start
Prune(timestamps, window_start) ==
    SelectSeq(timestamps, LAMBDA ts : ts > window_start)

\* a check that admits one request too many (> for >=)
OverLimit_OffByOne(timestamps, limit) == Len(timestamps) > limit

\* line 125: the limit check
OverLimit(timestamps, limit) == Len(timestamps) >= limit

\* a limiter that records the time of a denied request too
Stored_Always(kept, now, denied) == Append(kept, now)

\* lines 125-135: a denied request leaves the pruned list, an admitted one appends now
Stored(kept, now, denied) == IF denied THEN kept ELSE Append(kept, now)

TotalCalls == LET n[ids \in SUBSET Identifiers] ==
                      IF ids = {} THEN 0
                      ELSE LET i == CHOOSE x \in ids : TRUE
                           IN  Len(HistoryOf(calls, i)) + n[ids \ {i}]
              IN  n[Identifiers]

CallRecord(limit, window, at, ret) ==
    [limit |-> limit, window |-> window, at |-> at, ret |-> ret]

\* apply_rate_limiting called with no other call in progress: the whole handler.
ApplyRateLimiting(identifier, limit, window) ==
    LET now == now_ts
        window_start == now - window
        kept == Prune(WindowOf(rate_limits, identifier), window_start)
        denied == OverLimit(kept, limit)
    IN  /\ \A t \in Threads : frames[t].pc = "idle"
        /\ TotalCalls < MaxCalls
        /\ rate_limits' = StoreKey(rate_limits, identifier, Stored(kept, now, denied))
        /\ IF denied THEN Log("rate_limit_exceeded") ELSE UNCHANGED eventLog
        /\ calls' = StoreKey(calls, identifier,
                             Append(HistoryOf(calls, identifier),
                                    CallRecord(limit, window, now, ~denied)))
        /\ last' = [op |-> "apply_rate_limiting",
                    identifier |-> identifier,
                    limit |-> limit,
                    window |-> window,
                    at |-> now,
                    before |-> rate_limits,
                    ret |-> ~denied]
        /\ UNCHANGED <<now_ts, frames>>
        /\ UNCHANGED notRate

\* the clock moves on between calls
TickSecond ==
    /\ now_ts < MaxTime
    /\ now_ts' = now_ts + 1
    /\ UNCHANGED <<rate_limits, calls, eventLog, frames, last>>
    /\ UNCHANGED notRate

NextRate ==
    \/ \E i \in Identifiers, l \in Limits, w \in Windows : ApplyRateLimiting(i, l, w)
    \/ TickSecond

SpecRate == Init /\ [][NextRate]_vars

(***************************************************************************)
(* utils.py, CacheUtils: an in-memory cache whose entries expire.  The     *)
(* clock is time.time(), the one apply_rate_limiting reads.                *)
(***************************************************************************)
CacheKeys == {"key1", "key2"}
CacheValues == {"value1", "value2"}
TtlArgs == {None, Some(0), Some(2)}

\* del d[key]
DelKey(d, key) == [k \in DOMAIN d \ {key} |-> d[k]]

\* an entry that is still returned at the instant its lifetime ends (<= for <)
Fresh_Inclusive(entry, now) == now <= entry.expires

\* get, line 124: time.time() < entry['expires']
Fresh(entry, now) == now < entry.expires

\* set, lines 131-132: the default applies when no ttl is given
EffectiveTtl(ttl, default) == IF ttl = None THEN default ELSE TheVal(ttl)

\* cache = CacheUtils(default_ttl=ttl): a new, empty cache
NewCache(ttl) ==
    /\ last.op = "init"
    /\ cache' = <<>>
    /\ default_ttl' = ttl
    /\ live_set' = <<>>
    /\ last' = [op |-> "cache_init", default_ttl |-> ttl]
    /\ UNCHANGED notCache

\* get(key), lines 121-128: an entry past its lifetime is deleted and None returned
CacheGet(key) ==
    LET hit == key \in DOMAIN cache /\ Fresh(cache[key], now_ts)
    IN  /\ cache' = IF key \in DOMAIN cache /\ ~hit THEN DelKey(cache, key) ELSE cache
        /\ last' = [op |-> "cache_get", key |-> key, at |-> now_ts,
                    ret |-> IF hit THEN Some(cache[key].value) ELSE None]
        /\ UNCHANGED <<default_ttl, live_set>>
        /\ UNCHANGED notCache

\* set(key, value, ttl), lines 130-138
CacheSet(key, value, ttl) ==
    /\ cache' = StoreKey(cache, key,
                         [value |-> value,
                          expires |-> now_ts + EffectiveTtl(ttl, default_ttl)])
    /\ live_set' = StoreKey(live_set, key, [value |-> value, at |-> now_ts, ttl |-> ttl])
    /\ last' = [op |-> "cache_set", key |-> key, at |-> now_ts]
    /\ UNCHANGED default_ttl
    /\ UNCHANGED notCache

\* delete(key), lines 140-143
CacheDelete(key) ==
    /\ cache' = IF key \in DOMAIN cache THEN DelKey(cache, key) ELSE cache
    /\ live_set' = DelKey(live_set, key)
    /\ last' = [op |-> "cache_delete", key |-> key, at |-> now_ts]
    /\ UNCHANGED default_ttl
    /\ UNCHANGED notCache

\* clear(), lines 145-147
CacheClear ==
    /\ cache' = <<>>
    /\ live_set' = <<>>
    /\ last' = [op |-> "cache_clear", at |-> now_ts]
    /\ UNCHANGED default_ttl
    /\ UNCHANGED notCache

\* a cleanup that keeps an entry at the instant its lifetime ends (> for >=)
Expired_Strict(entry, now) == now > entry.expires

\* cleanup_expired, line 154: current_time >= entry['expires']
Expired(entry, now) == now >= entry.expires

\* cleanup_expired(), lines 149-157: the entries with current_time >= expires go
CleanupExpired ==
    /\ cache' = [k \in {j \in DOMAIN cache : ~Expired(cache[j], now_ts)} |-> cache[k]]
    /\ last' = [op |-> "cleanup_expired", at |-> now_ts]
    /\ UNCHANGED <<default_ttl, live_set>>
    /\ UNCHANGED notCache

NextCache ==
    \/ NewCache(1)
    \/ \E k \in CacheKeys : CacheGet(k)
    \/ \E k \in CacheKeys, v \in CacheValues, ttl \in TtlArgs : CacheSet(k, v, ttl)
    \/ \E k \in CacheKeys : CacheDelete(k)
    \/ CacheClear
    \/ CleanupExpired
    \/ TickSecond

SpecCache == Init /\ [][NextCache]_vars

(***************************************************************************)
(* utils.py, RetryUtils.retry_with_backoff: the wrapper around a function  *)
(* that may fail.  The sync and the async wrapper run the same loop.  Each *)
(* invocation of the function returns a value, raises an Exception, or     *)
(* raises a BaseException that is no Exception (a cancellation).           *)
(***************************************************************************)
MaxRetries == 3       \* max_retries is explored from 0 to MaxRetries

RetryArgs == 0..MaxRetries
BackoffFactors == {0, 1, 2}

FuncOutcomes ==
    { [kind |-> "return", value |-> "result"],
      [kind |-> "Exception", exc |-> "error-1"],
      [kind |-> "Exception", exc |-> "error-2"],
      [kind |-> "BaseException", exc |-> "cancelled"] }

\* 2 ** attempt
RECURSIVE Pow2(_)
Pow2(n) == IF n = 0 THEN 1 ELSE 2 * Pow2(n - 1)

\* a wait that does not grow
WaitTime_Constant(backoff_factor, attempt) == backoff_factor

\* lines 177 and 194: wait_time = backoff_factor * (2 ** attempt)
WaitTime(backoff_factor, attempt) == backoff_factor * Pow2(attempt)

\* the wrapper's return and the exception that leaves it
Returned(value) == [returned |-> TRUE, value |-> value]
Raised(exc) == [returned |-> FALSE, raised |-> exc]

RetryDone(f, ret) ==
    /\ last' = [op |-> "retry", max_retries |-> f.max_retries,
                backoff_factor |-> f.backoff_factor, is_async |-> f.is_async,
                ret |-> ret]
    /\ retry' = IdleFrame

\* the wrapper is called: lines 170-171 (187-188).  With max_retries = 0 the loop
\* body never runs and line 183 (200) is raise None, a TypeError.
RetryCall(max_retries, backoff_factor, is_async) ==
    LET f == [pc |-> "attempt", max_retries |-> max_retries,
              backoff_factor |-> backoff_factor, is_async |-> is_async,
              attempt |-> 0, last_exception |-> None]
    IN  /\ retry.pc = "idle"
        /\ retry_log' = <<>>
        /\ IF max_retries = 0
           THEN RetryDone(f, Raised("TypeError"))
           ELSE retry' = f /\ UNCHANGED last
        /\ UNCHANGED notRetry

\* lines 172-181 (189-198): the function is invoked; its value is returned, its
\* Exception is kept and, on the last attempt, raised at line 183 (200), and what
\* is no Exception leaves the wrapper at once
RetryAttempt(outcome) ==
    LET f == retry
    IN  /\ f.pc = "attempt"
        /\ retry_log' = Append(retry_log, [event |-> "invoke", outcome |-> outcome])
        /\ CASE outcome.kind = "return" -> RetryDone(f, Returned(outcome.value))
             [] outcome.kind = "BaseException" -> RetryDone(f, Raised(outcome.exc))
             [] outcome.kind = "Exception" ->
                    IF f.attempt < f.max_retries - 1
                    THEN /\ retry' = [f EXCEPT !.pc = "sleep",
                                                !.last_exception = Some(outcome.exc)]
                         /\ UNCHANGED last
                    ELSE RetryDone(f, Raised(outcome.exc))
        /\ UNCHANGED notRetry

\* lines 177-179 (194-196): the sleep, then the next round of the loop
RetrySleep ==
    /\ retry.pc = "sleep"
    /\ retry_log' = Append(retry_log,
                           [event |-> "sleep",
                            wait |-> WaitTime(retry.backoff_factor, retry.attempt)])
    /\ retry' = [retry EXCEPT !.pc = "attempt", !.attempt = @ + 1]
    /\ UNCHANGED last
    /\ UNCHANGED notRetry

NextRetry ==
    \/ \E n \in RetryArgs, b \in BackoffFactors, a \in BOOLEAN : RetryCall(n, b, a)
    \/ \E o \in FuncOutcomes : RetryAttempt(o)
    \/ RetrySleep

SpecRetry == Init /\ [][NextRetry]_vars

(***************************************************************************)
(* apply_rate_limiting run by threads: the steps between which CPython may *)
(* switch threads.  The method takes no lock.                              *)
(***************************************************************************)
CallsInProgress == Cardinality({t \in Threads : frames[t].pc # "idle"})

\* lines 111-122: read the clock, create the list, prune it
AllowPrune(t, identifier, limit, window) ==
    /\ frames[t].pc = "idle"
    /\ TotalCalls + CallsInProgress < MaxCalls
    /\ rate_limits' = StoreKey(rate_limits, identifier,
                               Prune(WindowOf(rate_limits, identifier), now_ts - window))
    /\ frames' = [frames EXCEPT ![t] =
                     [pc |-> "check", identifier |-> identifier, limit |-> limit,
                      window |-> window, now |-> now_ts]]
    /\ UNCHANGED <<now_ts, calls, eventLog, last>>
    /\ UNCHANGED notRate

\* lines 125-131: the limit check; over the limit, log and return False
AllowCheck(t) ==
    LET f == frames[t]
        denied == OverLimit(rate_limits[f.identifier], f.limit)
    IN  /\ f.pc = "check"
        /\ IF denied
           THEN /\ Log("rate_limit_exceeded")
                /\ calls' = StoreKey(calls, f.identifier,
                                     Append(HistoryOf(calls, f.identifier),
                                            CallRecord(f.limit, f.window, f.now, FALSE)))
                /\ last' = [op |-> "apply_rate_limiting",
                            identifier |-> f.identifier,
                            limit |-> f.limit,
                            window |-> f.window,
                            at |-> f.now,
                            before |-> rate_limits,
                            ret |-> FALSE]
                /\ frames' = [frames EXCEPT ![t] = IdleFrame]
           ELSE /\ frames' = [frames EXCEPT ![t].pc = "append"]
                /\ UNCHANGED <<eventLog, calls, last>>
        /\ UNCHANGED <<rate_limits, now_ts>>
        /\ UNCHANGED notRate

\* lines 133-135: append the request's timestamp and return True
AllowAppend(t) ==
    LET f == frames[t]
    IN  /\ f.pc = "append"
        /\ rate_limits' = [rate_limits EXCEPT ![f.identifier] = Append(@, f.now)]
        /\ calls' = StoreKey(calls, f.identifier,
                             Append(HistoryOf(calls, f.identifier),
                                    CallRecord(f.limit, f.window, f.now, TRUE)))
        /\ last' = [op |-> "apply_rate_limiting",
                    identifier |-> f.identifier,
                    limit |-> f.limit,
                    window |-> f.window,
                    at |-> f.now,
                    before |-> rate_limits,
                    ret |-> TRUE]
        /\ frames' = [frames EXCEPT ![t] = IdleFrame]
        /\ UNCHANGED <<now_ts, eventLog>>
        /\ UNCHANGED notRate

NextRateThreads ==
    \/ \E t \in Threads, i \in Identifiers, l \in Limits, w \in Windows :
          AllowPrune(t, i, l, w)
    \/ \E t \in Threads : AllowCheck(t)
    \/ \E t \in Threads : AllowAppend(t)
    \/ TickSecond

SpecRateThreads == Init /\ [][NextRateThreads]_vars

(***************************************************************************)
(* The security event log, written by generate_api_key, validate_api_key   *)
(* and apply_rate_limiting of one SecurityHardening, called one at a time, *)
(* from a log that is empty or near its capacity.                          *)
(***************************************************************************)
MaxLogged == 3        \* events logged by the calls explored per run

\* the numbers of events logged before the explored calls
LogFills == {0, LogCapacity - 2, LogCapacity - 1, LogCapacity}

InitLog == \E n \in LogFills : InitState(DefaultDifficulty, n)

LogOpen == Len(logged) < MaxLogged

\* one user, one identifier and one limit: what is logged does not depend on them
NextLog ==
    \/ \E k \in TokenUrlsafe(api_keys) :
          LogOpen /\ GenerateApiKey("alice", None, k)
    \/ \E k \in {TokenOrder[1], UnknownToken}, r \in {None, Some("admin")} :
          LogOpen /\ ValidateApiKey(k, r)
    \/ LogOpen /\ ApplyRateLimiting("10.0.0.1", 1, 1)
    \/ LogOpen /\ TickDay

SpecLog == InitLog /\ [][NextLog]_vars

(***************************************************************************)
(* _log_security_event run by threads: the steps between which CPython may *)
(* switch threads.  The method takes no lock.  A thread that has loaded    *)
(* self.security_events holds that list object; when another thread        *)
(* rebinds the attribute (line 149) the object it holds is no longer the    *)
(* log.  The loads of lines 148 and 149 are taken together with the len    *)
(* and the slice that follow them.                                         *)
(***************************************************************************)
LogsInProgress == Cardinality({t \in Threads : frames[t].pc # "idle"})

\* events[-1000:]
LastEvents(events) ==
    IF Len(events) > LogCapacity
    THEN SubSeq(events, Len(events) - LogCapacity + 1, Len(events))
    ELSE events

\* validate_api_key(api_key) up to the call of _log_security_event (lines 66-69)
ValidateFailEnter(t, api_key) ==
    LET outcome == ValidateOutcome(api_keys, api_key, None, now_dt)
    IN  /\ frames[t].pc = "idle"
        /\ Len(logged) + LogsInProgress < MaxLogged
        /\ outcome # "ok"
        /\ frames' = [frames EXCEPT ![t] =
                         [pc |-> "log_load", op |-> "validate_api_key", event |-> outcome,
                          api_key |-> api_key, holds_log |-> FALSE, sliced |-> <<>>]]
        /\ UNCHANGED <<api_keys, now_dt, issued, valid_returns, eventLog, last>>
        /\ UNCHANGED notCred

\* apply_rate_limiting up to the call of _log_security_event (lines 111-126)
AllowDeniedEnter(t, identifier, limit, window) ==
    LET kept == Prune(WindowOf(rate_limits, identifier), now_ts - window)
    IN  /\ frames[t].pc = "idle"
        /\ Len(logged) + LogsInProgress < MaxLogged
        /\ OverLimit(kept, limit)
        /\ rate_limits' = StoreKey(rate_limits, identifier, kept)
        /\ frames' = [frames EXCEPT ![t] =
                         [pc |-> "log_load", op |-> "apply_rate_limiting",
                          event |-> "rate_limit_exceeded", identifier |-> identifier,
                          limit |-> limit, window |-> window, now |-> now_ts,
                          holds_log |-> FALSE, sliced |-> <<>>]]
        /\ UNCHANGED <<now_ts, calls, eventLog, last>>
        /\ UNCHANGED notRate

\* line 145, the load of self.security_events
LogLoad(t) ==
    /\ frames[t].pc = "log_load"
    /\ frames' = [frames EXCEPT ![t].pc = "log_append", ![t].holds_log = TRUE]
    /\ UNCHANGED <<eventLog, last, credOnly>>
    /\ UNCHANGED notCred

\* line 145, the append to the list that was loaded
LogAppend(t) ==
    /\ frames[t].pc = "log_append"
    /\ security_events' = IF frames[t].holds_log
                          THEN Append(security_events, frames[t].event)
                          ELSE security_events
    /\ logged' = Append(logged, frames[t].event)
    /\ frames' = [frames EXCEPT ![t].pc = "log_check"]
    /\ UNCHANGED <<log_base, last, credOnly>>
    /\ UNCHANGED notCred

\* the caller's return after _log_security_event returned (lines 70 and 131)
LogReturn(t, others) ==
    LET f == frames[t]
    IN  /\ frames' = [others EXCEPT ![t] = IdleFrame]
        /\ IF f.op = "validate_api_key"
           THEN /\ last' = [op |-> "validate_api_key",
                            api_key |-> f.api_key,
                            required_permission |-> None,
                            at |-> now_dt,
                            before |-> None,
                            ret |-> ValidateReturn(api_keys, f.api_key, None, f.event)]
                /\ UNCHANGED calls
           ELSE /\ last' = [op |-> "apply_rate_limiting",
                            identifier |-> f.identifier,
                            limit |-> f.limit,
                            window |-> f.window,
                            at |-> f.now,
                            before |-> rate_limits,
                            ret |-> FALSE]
                /\ calls' = StoreKey(calls, f.identifier,
                                     Append(HistoryOf(calls, f.identifier),
                                            CallRecord(f.limit, f.window, f.now, FALSE)))

\* line 148: len(self.security_events) > 1000
LogCheck(t) ==
    /\ frames[t].pc = "log_check"
    /\ IF Len(security_events) > LogCapacity
       THEN /\ frames' = [frames EXCEPT ![t].pc = "log_slice"]
            /\ UNCHANGED <<last, calls>>
       ELSE LogReturn(t, frames)
    /\ UNCHANGED <<eventLog, rate_limits, now_ts>>
    /\ UNCHANGED notRate

\* line 149, the right-hand side: self.security_events[-1000:]
LogSlice(t) ==
    /\ frames[t].pc = "log_slice"
    /\ frames' = [frames EXCEPT ![t].pc = "log_assign",
                                ![t].sliced = LastEvents(security_events)]
    /\ UNCHANGED <<eventLog, last, credOnly>>
    /\ UNCHANGED notCred

\* line 149, the store: the attribute is bound to the new list, and the threads
\* that loaded the old one no longer hold the log
LogAssign(t) ==
    /\ frames[t].pc = "log_assign"
    /\ security_events' = frames[t].sliced
    /\ LogReturn(t, [u \in Threads |->
                        IF frames[u].pc = "log_append"
                        THEN [frames[u] EXCEPT !.holds_log = FALSE]
                        ELSE frames[u]])
    /\ UNCHANGED <<log_base, logged, rate_limits, now_ts>>
    /\ UNCHANGED notRate

\* calls that log: an unknown token, and a limit of 0, which admits nothing
NextLogThreads ==
    \/ \E t \in Threads : ValidateFailEnter(t, UnknownToken)
    \/ \E t \in Threads : AllowDeniedEnter(t, "10.0.0.1", 0, 1)
    \/ \E t \in Threads : LogLoad(t)
    \/ \E t \in Threads : LogAppend(t)
    \/ \E t \in Threads : LogCheck(t)
    \/ \E t \in Threads : LogSlice(t)
    \/ \E t \in Threads : LogAssign(t)

SpecLogThreads == InitLog /\ [][NextLogThreads]_vars

(***************************************************************************)
(* Claims about the security event log                                     *)
(***************************************************************************)
\* C15: after any sequence of generate_api_key, validate_api_key and
\* apply_rate_limiting calls the log holds at most 1000 entries, and they are the
\* most recent min(k, 1000) of the k events logged so far, in the order logged.
C15_BoundedRecentLog ==
    LET all == Rejected(log_base) \o logged
        k == Len(all)
        kept == IF k < LogCapacity THEN k ELSE LogCapacity
    IN  /\ Len(security_events) <= LogCapacity
        /\ security_events = SubSeq(all, k - kept + 1, k)

C15_Witness ==
    /\ log_base = LogCapacity - 1
    /\ logged = <<"api_key_generated", "insufficient_permissions", "rate_limit_exceeded">>
    /\ Len(security_events) = LogCapacity
    /\ security_events[LogCapacity - 3] = "invalid_api_key"
    /\ security_events[LogCapacity] = "rate_limit_exceeded"

\* C32: when the calls that log run concurrently, no event younger than the 1000
\* most recent is lost: once every call has returned, the log holds the most recent
\* min(k, 1000) of the k events logged, in the order they were appended.
C32_NoEventLost ==
    AllIdle =>
        LET all == Rejected(log_base) \o logged
        IN  security_events = LastEvents(all)

\* the event type a completed call has to log, None when it has to log nothing
ExpectedEvent(call) ==
    CASE call.op = "generate_api_key" -> Some("api_key_generated")
      [] call.op = "validate_api_key" ->
            IF call.ret.valid THEN None
            ELSE Some(CASE call.ret.reason = "Invalid API key" -> "invalid_api_key"
                        [] call.ret.reason = "API key expired" -> "expired_api_key"
                        [] call.ret.reason = "Missing permission" ->
                              "insufficient_permissions")
      [] call.op = "apply_rate_limiting" ->
            IF call.ret THEN None ELSE Some("rate_limit_exceeded")

\* C16: every generate_api_key call, every failed validate_api_key (unknown token,
\* expired, missing permission) and every denied apply_rate_limiting puts exactly
\* one entry of the matching event type at the end of the log, and a successful
\* validate_api_key and an admitted apply_rate_limiting leave the log as it was.
C16_OneEventPerFailure ==
    [][(now_dt' = now_dt) =>
          LET event == ExpectedEvent(last')
              old == security_events
              new == security_events'
          IN  IF event = None
              THEN new = old
              ELSE /\ Len(new) = IF Len(old) < LogCapacity THEN Len(old) + 1
                                                           ELSE LogCapacity
                   /\ new[Len(new)] = TheVal(event)
                   /\ SubSeq(new, 1, Len(new) - 1)
                         = SubSeq(old, Len(old) - Len(new) + 2, Len(old))]_vars

C16_Witness ==
    /\ last.op = "validate_api_key"
    /\ ~last.ret.valid
    /\ last.ret.reason = "API key expired"
    /\ valid_returns[last.api_key] >= 1
    /\ logged = <<"api_key_generated", "rate_limit_exceeded", "expired_api_key">>
    /\ security_events[Len(security_events)] = "expired_api_key"
    /\ Len(security_events) = LogCapacity

(***************************************************************************)
(* Claims about the rate limiter                                           *)
(***************************************************************************)
\* the first j calls on the identifier were all made with one limit and one window
Uniform(h, j) ==
    \A i \in 1..j : h[i].limit = h[1].limit /\ h[i].window = h[1].window

\* every call on the identifier, returned or in progress, used limit l and window w
AlwaysCalledWith(identifier, l, w) ==
    /\ \A i \in 1..Len(HistoryOf(calls, identifier)) :
          calls[identifier][i].limit = l /\ calls[identifier][i].window = w
    /\ \A t \in Threads :
          (frames[t].pc # "idle" /\ frames[t].identifier = identifier)
          => (frames[t].limit = l /\ frames[t].window = w)

InWindow(timestamps, window_start) ==
    Cardinality({i \in 1..Len(timestamps) : timestamps[i] > window_start})

\* C2: calls racing on one identifier are never admitted beyond the limit: the
\* stored window never holds more than limit timestamps that are inside the window.
C2_NeverOverAdmitted ==
    \A i \in DOMAIN rate_limits : \A l \in Limits, w \in Windows :
        AlwaysCalledWith(i, l, w) => InWindow(rate_limits[i], now_ts - w) <= l

C17_AllowDecision ==
    (last.op = "apply_rate_limiting") =>
        LET h == calls[last.identifier]
            counted == {j \in 1..(Len(h) - 1) :
                           h[j].ret /\ h[j].at >= last.at - last.window}
        IN  last.ret <=> (Cardinality(counted) < last.limit)

\* the timestamps of the list that are newer than window_start, in order
Newer(timestamps, window_start) == SelectSeq(timestamps, LAMBDA ts : ts > window_start)

\* the list stored after the first j calls if the denied ones among them had not been made
RECURSIVE ReplayAdmitted(_, _)
ReplayAdmitted(h, j) ==
    IF j = 0 THEN <<>>
    ELSE IF ~h[j].ret THEN ReplayAdmitted(h, j - 1)
    ELSE Append(Newer(ReplayAdmitted(h, j - 1), h[j].at - h[j].window), h[j].at)

AdmittedIn(h, from, to) ==
    Cardinality({j \in 1..Len(h) : h[j].ret /\ from < h[j].at /\ h[j].at <= to})

\* C29: with one limit L >= 1 and one window W on every call of an identifier and
\* calls made one at a time, at most L calls are admitted at times in (T - W, T],
\* for every T.
C29_AtMostLimitPerWindow ==
    \A b \in DOMAIN calls :
        LET h == calls[b]
        IN  (Uniform(h, Len(h)) /\ h[1].limit >= 1) =>
                \A T \in 0..(MaxTime + h[1].window) :
                    AdmittedIn(h, T - h[1].window, T) <= h[1].limit

C29_Witness ==
    \E b \in DOMAIN calls :
        LET h == calls[b]
        IN  /\ Len(h) = 3
            /\ Uniform(h, 3)
            /\ h[1].limit = 2 /\ h[1].window = 2
            /\ h[1].ret /\ h[2].ret /\ ~h[3].ret
            /\ h[2].at > h[1].at
            /\ h[3].at >= h[2].at

\* C25: get(k) returns v exactly when the last set on k stored v, no delete(k) or
\* clear() came after that set, and the time of the get is strictly before the time
\* of the set plus its ttl (the default ttl when none was given); otherwise None.
C25_GetReturnsLiveValue ==
    (last.op = "cache_get") =>
        LET k == last.key
            live == /\ k \in DOMAIN live_set
                    /\ last.at < live_set[k].at
                                 + (IF live_set[k].ttl = None THEN default_ttl
                                    ELSE TheVal(live_set[k].ttl))
        IN  last.ret = IF live THEN Some(live_set[k].value) ELSE None

\* a get at the instant the lifetime of the entry ends: None, and the entry is gone
C25_Witness ==
    /\ last.op = "cache_get"
    /\ last.key \in DOMAIN live_set
    /\ live_set[last.key].ttl = Some(2)
    /\ last.at = live_set[last.key].at + 2
    /\ last.ret = None
    /\ last.key \notin DOMAIN cache

\* C37: get(k) returns a value only when the entry of k is stored with
\* now < expires, and then the value of that entry; a get on an entry with
\* now >= expires removes it; cleanup_expired removes the entries with
\* now >= expires and leaves the others, values and expiry times, as they were.
C37_NeverExpiredValue ==
    /\ [][(last'.op = "cache_get" /\ now_ts' = now_ts) =>
             LET k == last'.key
             IN  /\ (last'.ret # None) =>
                        /\ k \in DOMAIN cache
                        /\ now_ts < cache[k].expires
                        /\ last'.ret = Some(cache[k].value)
                 /\ (k \in DOMAIN cache /\ now_ts >= cache[k].expires) =>
                        k \notin DOMAIN cache'
                 /\ \A j \in DOMAIN cache \ {k} : j \in DOMAIN cache' /\ cache'[j] = cache[j]]_vars
    /\ [][(last'.op = "cleanup_expired" /\ now_ts' = now_ts) =>
             /\ DOMAIN cache' = {j \in DOMAIN cache : now_ts < cache[j].expires}
             /\ \A j \in DOMAIN cache' : cache'[j] = cache[j]]_vars

\* a cleanup at the instant one entry's lifetime ends, with another entry kept
C37_Witness ==
    /\ last.op = "cleanup_expired"
    /\ DOMAIN live_set = CacheKeys
    /\ \E k \in CacheKeys :
          /\ DOMAIN cache = CacheKeys \ {k}
          /\ live_set[k].ttl = Some(2)
          /\ live_set[k].at + 2 = last.at
          /\ \A j \in DOMAIN cache : cache[j].expires > last.at

\* the wrapper call in progress or the one that completed last: its arguments
RetryArgsOf ==
    IF retry.pc # "idle"
    THEN Some([max_retries |-> retry.max_retries, backoff_factor |-> retry.backoff_factor])
    ELSE IF last.op = "retry"
         THEN Some([max_retries |-> last.max_retries,
                    backoff_factor |-> last.backoff_factor])
         ELSE None

\* C36: for max_retries >= 1 the wrapped function is invoked at most max_retries
\* times; no invocation follows one that returned, whose value the wrapper returns;
\* a failed invocation is followed by a sleep of backoff_factor * 2^i (i counting the
\* failed attempts from 0) and then the next invocation; after max_retries failures
\* the wrapper raises the exception of the last invocation, without a sleep.
C36_RetryContract ==
    (RetryArgsOf # None /\ TheVal(RetryArgsOf).max_retries >= 1) =>
        LET args == TheVal(RetryArgsOf)
            ev == retry_log
            n == Cardinality({j \in 1..Len(ev) : ev[j].event = "invoke"})
        IN  /\ n <= args.max_retries
            /\ \A j \in 1..Len(ev) :
                   IF j % 2 = 1
                   THEN /\ ev[j].event = "invoke"
                        /\ (j < Len(ev)) => ev[j].outcome.kind = "Exception"
                   ELSE /\ ev[j].event = "sleep"
                        /\ ev[j].wait = args.backoff_factor * (2 ^ ((j \div 2) - 1))
            /\ (retry.pc = "idle") =>
                   /\ Len(ev) >= 1
                   /\ ev[Len(ev)].event = "invoke"
                   /\ LET final == ev[Len(ev)].outcome
                      IN  /\ (final.kind = "return") =>
                                 last.ret = [returned |-> TRUE, value |-> final.value]
                          /\ (final.kind # "return") =>
                                 last.ret = [returned |-> FALSE, raised |-> final.exc]
                          /\ (final.kind = "Exception") => n = args.max_retries

\* three failures with max_retries = 3 and backoff_factor = 2: sleeps of 2 and 4,
\* then the exception of the third invocation
C36_Witness ==
    /\ retry.pc = "idle"
    /\ last.op = "retry"
    /\ last.max_retries = 3
    /\ last.backoff_factor = 2
    /\ Len(retry_log) = 5
    /\ retry_log[1].outcome = [kind |-> "Exception", exc |-> "error-1"]
    /\ retry_log[2].wait = 2
    /\ retry_log[3].outcome = [kind |-> "Exception", exc |-> "error-1"]
    /\ retry_log[4].wait = 4
    /\ retry_log[5].outcome = [kind |-> "Exception", exc |-> "error-2"]
    /\ last.ret = [returned |-> FALSE, raised |-> "error-2"]

\* the step is an apply_rate_limiting call that returned True
AllowedStep ==
    \E b \in DOMAIN calls' :
        /\ Len(calls'[b]) = Len(HistoryOf(calls, b)) + 1
        /\ calls'[b][Len(calls'[b])].ret

\* C26: the work of a protected endpoint starts only in a request whose bearer token
\* validate_api_key found valid and for which apply_rate_limiting then returned True.
C26_ValidatedThenAllowed ==
    [][(/\ last'.op = "request"
        /\ last'.endpoint \in ProtectedEndpoints
        /\ last'.handler_ran)
       => (/\ last'.validation # None
           /\ TheVal(last'.validation).valid
           /\ AllowedStep)]_vars

\* the list is in non-decreasing order
NonDecreasing(timestamps) ==
    \A i \in 1..Len(timestamps), j \in 1..Len(timestamps) :
        i < j => timestamps[i] <= timestamps[j]

\* C18: the clock never goes back, and after every apply_rate_limiting call, admitted
\* or denied, every timestamp stored for its identifier lies in [now - window, now]
\* (now being the time the call read) and the stored list is in non-decreasing order.
\* Read when no call is in progress, so that the stored list is the one the call left.
C18_WindowWellFormed ==
    (AllIdle /\ last.op = "apply_rate_limiting") =>
        LET stored == rate_limits[last.identifier]
        IN  /\ \A i \in 1..Len(stored) :
                  last.at - last.window <= stored[i] /\ stored[i] <= last.at
            /\ NonDecreasing(stored)

\* the stored list after the first j calls of a history, computed from that history alone
RECURSIVE Replay(_, _)
Replay(h, j) ==
    IF j = 0 THEN <<>>
    ELSE LET kept == Prune(Replay(h, j - 1), h[j].at - h[j].window)
         IN  IF OverLimit(kept, h[j].limit) THEN kept ELSE Append(kept, h[j].at)

\* C19: an apply_rate_limiting call on one identifier leaves the stored list of
\* every other identifier as it was, and the result of every call on an identifier
\* is the one its own history of calls gives, whatever was called on the others.
C19_IndependentIdentifiers ==
    /\ (last.op = "apply_rate_limiting") =>
           \A b \in Identifiers \ {last.identifier} :
               /\ (b \in DOMAIN rate_limits) <=> (b \in DOMAIN last.before)
               /\ b \in DOMAIN rate_limits => rate_limits[b] = last.before[b]
    /\ \A b \in DOMAIN calls :
           LET h == calls[b]
           IN  /\ rate_limits[b] = Replay(h, Len(h))
               /\ \A j \in 1..Len(h) :
                      h[j].ret = ~OverLimit(Prune(Replay(h, j - 1), h[j].at - h[j].window),
                                            h[j].limit)

C19_Witness ==
    /\ last.op = "apply_rate_limiting"
    /\ last.ret
    /\ \E b \in DOMAIN calls :
          /\ b # last.identifier
          /\ Len(calls[b]) = 2
          /\ calls[b][1].ret /\ ~calls[b][2].ret
          /\ calls[b][2].at = last.at
          /\ calls[b][2].limit = last.limit
          /\ Len(rate_limits[b]) = 1

(***************************************************************************)
(* ProofLock                                                               *)
(***************************************************************************)
MaxDifficulty == 5    \* ProofLock(d) is explored for d in 0..MaxDifficulty

Difficulties == 0..MaxDifficulty

\* Python values used as payloads.  A dict holds its items in insertion order.
PyInt(n) == [type |-> "int", val |-> n]
PyStrOf(str) == [type |-> "str", val |-> str]
PyTuple(items) == [type |-> "tuple", items |-> items]
PyList(items) == [type |-> "list", items |-> items]
PyDict(items) == [type |-> "dict", items |-> items]

DictAB == PyDict(<< <<"a", PyInt(1)>>, <<"b", PyInt(2)>> >>)
DictBA == PyDict(<< <<"b", PyInt(2)>>, <<"a", PyInt(1)>> >>)

Payloads ==
    { PyInt(5),
      PyStrOf("5"),
      PyStrOf("test"),
      PyDict(<< <<"a", PyInt(1)>> >>),
      PyList(<< PyTuple(<<PyStrOf("a"), PyInt(1)>>) >>),
      DictAB,
      DictBA,
      PyDict(<< <<"k", DictAB>> >>),
      PyDict(<< <<"k", DictBA>> >>) }

\* p == q in Python: dicts are equal when they hold the same items in any order.
RECURSIVE PyEqual(_, _)
PyEqual(p, q) ==
    /\ p.type = q.type
    /\ CASE p.type \in {"int", "str"} -> p.val = q.val
         [] p.type \in {"tuple", "list"} ->
               /\ Len(p.items) = Len(q.items)
               /\ \A i \in 1..Len(p.items) : PyEqual(p.items[i], q.items[i])
         [] p.type = "dict" ->
               /\ Len(p.items) = Len(q.items)
               /\ \A i \in 1..Len(p.items) : \E j \in 1..Len(q.items) :
                     /\ p.items[i][1] = q.items[j][1]
                     /\ PyEqual(p.items[i][2], q.items[j][2])

\* str(n) for an int
Digits == <<"0", "1", "2", "3", "4", "5", "6", "7", "8", "9">>
RECURSIVE IntStr(_)
IntStr(n) ==
    IF n < 0 THEN "-" \o IntStr(-n)
    ELSE IF n < 10 THEN Digits[n + 1]
    ELSE IntStr(n \div 10) \o Digits[(n % 10) + 1]

\* ", ".join(parts)
RECURSIVE Join(_)
Join(parts) ==
    IF Len(parts) = 0 THEN ""
    ELSE IF Len(parts) = 1 THEN parts[1]
    ELSE parts[1] \o ", " \o Join(Tail(parts))

\* repr(v)
RECURSIVE PyRepr(_)
PyRepr(v) ==
    CASE v.type = "int" -> IntStr(v.val)
      [] v.type = "str" -> "'" \o v.val \o "'"
      [] v.type = "tuple" ->
            "(" \o Join([i \in 1..Len(v.items) |-> PyRepr(v.items[i])]) \o ")"
      [] v.type = "list" ->
            "[" \o Join([i \in 1..Len(v.items) |-> PyRepr(v.items[i])]) \o "]"
      [] v.type = "dict" ->
            "{" \o Join([i \in 1..Len(v.items) |->
                            "'" \o v.items[i][1] \o "': " \o PyRepr(v.items[i][2])])
                \o "}"

\* str(v): a str is itself, anything else its repr
PyStr(v) == IF v.type = "str" THEN v.val ELSE PyRepr(v)

\* the order of the dict keys the payloads use, as Python compares strings
KeyOrder == <<"a", "b", "k">>

\* sorted(data.items()): the (key, value) tuples by key
SortedItems(data) ==
    LET keys == {data.items[i][1] : i \in 1..Len(data.items)}
        ordered == SelectSeq(KeyOrder, LAMBDA k : k \in keys)
        ValueOf(k) == data.items[CHOOSE i \in 1..Len(data.items) : data.items[i][1] = k][2]
    IN  PyList([i \in 1..Len(ordered) |->
                   PyTuple(<<PyStrOf(ordered[i]), ValueOf(ordered[i])>>)])

\* lines 191-195 and 230-234: the string that is hashed
Canonical(data) ==
    IF data.type = "dict" THEN PyStr(SortedItems(data)) ELSE PyStr(data)

\* hashlib.sha256(s.encode()).hexdigest() for the strings the model hashes,
\* computed with hashlib.
Sha256Table ==
       ("5" :>
          "ef2d127de37b942baad06145e54b0c619a1f22327b2ebbcfbec78f5564afe39d")
    @@ ("50" :>
          "1a6562590ef19d1045d06c4055742d38288e9e6dcd71ccde5cee80f1d5a774eb")
    @@ ("51" :>
          "031b4af5197ec30a926f48cf40e11a7dbc470048a21e4003b7a3c07c5dab1baa")
    @@ ("51000000" :>
          "10d0f4b1aea39424cb018f15688be1bc5062f2453bbeace3cf517aeb11442e71")
    @@ ("520287" :>
          "0000a63f49cbe5c172bdc8ce46b995de2ac30cd28bfaf585641bf58640e82c35")
    @@ ("5848" :>
          "000c15d0ea8224c9649c9adee30c3030ee769b2b5f6d6594f94d446adf60396b")
    @@ ("596138" :>
          "00000691457f4f0ce13e187b9ab4fda6d42c8647752909b8f71f9dbd8f6bd4ab")
    @@ ("5999999" :>
          "c401c0f974d94ea41758695a3a048fddbfaaa448dce08a8f4c20b8292e083f3c")
    @@ ("[('a', 1), ('b', 2)]" :>
          "61c404d6ef8d8c24f13bd3226989f0c5541fceb2232b64eed47a1a49698ba0e9")
    @@ ("[('a', 1), ('b', 2)]0" :>
          "9792fd307626c3155931b1f6f812a15632dc27b65b031893f465cab51a9cfde5")
    @@ ("[('a', 1), ('b', 2)]1000000" :>
          "70d27f14fca9051b019e88dfdc2a4ae8d83fe37a501c75c63c1a2b55fc88e638")
    @@ ("[('a', 1), ('b', 2)]22" :>
          "00a355969e5b97180e042f57453272e699cf9f74915c433a25b8d4803a824afe")
    @@ ("[('a', 1), ('b', 2)]296" :>
          "000b050d2fef724824e998a7fb6435c9a779833206d09c0e108d005babcb14da")
    @@ ("[('a', 1), ('b', 2)]6716" :>
          "0000c2dba8821315da8d3393090a6c48f20fec2336d7c602d1029f5d446cf3fb")
    @@ ("[('a', 1), ('b', 2)]999999" :>
          "c9cc877baeecc3102527b7851b8322859f26ebf5f63aef94c193ca6b8b418be1")
    @@ ("[('a', 1)]" :>
          "0713fe02cba45e60d7b8cea56581c7b1db1b0a04407b5783d664c1659c67f9df")
    @@ ("[('a', 1)]0" :>
          "8965afc8f7c304958fee7231fb6b12e7638410af65733704798cf707d7b8e514")
    @@ ("[('a', 1)]1000000" :>
          "beb78e3f8d756f6dab48f700faa328e8c576c395317aaf11e01a07ecfb082179")
    @@ ("[('a', 1)]10570" :>
          "00009b187452ee7c4dfebee973815a21f58815512ec60b3b951617b6c44614fd")
    @@ ("[('a', 1)]16" :>
          "05084c9b074ef33323a794f3d24e38daef36c535eecf43b5e3631d1ac48373e3")
    @@ ("[('a', 1)]279905" :>
          "000006dc05784a0aa30e147bfa0717c98d362988a2e80a52fadf6272c5463a15")
    @@ ("[('a', 1)]62" :>
          "0094d192bac1949cb44089c176beffc83e6608693eeaf3f6d51a399fb87ae3b8")
    @@ ("[('a', 1)]922" :>
          "00099bf9f4e6c8f3d2f4e96d783b2ae2a08dfc8ec08ced1fd5b5718635bf18e1")
    @@ ("[('a', 1)]999999" :>
          "197d2ba6463be81a74012f9a300622bad75527c0e656a4362bade15c5e81c230")
    @@ ("[('k', {'a': 1, 'b': 2})]" :>
          "dc1ebf8e205646cecb57aaa5d44c0ad94e174744546c2df5eccd1cfed00cf53b")
    @@ ("[('k', {'a': 1, 'b': 2})]0" :>
          "d0a4750dd25596993b097153b5a475c462f79098f0436f6f307f84c2c6b80a1d")
    @@ ("[('k', {'a': 1, 'b': 2})]1000000" :>
          "f38a94cb6bb55dc465d2fe67d6077924229029abf935a4a8f7e0280c4fdcdb85")
    @@ ("[('k', {'a': 1, 'b': 2})]220003" :>
          "0000075971c7d013c2428b39a48d381d6d51f48d766b3f01517150d88c11262a")
    @@ ("[('k', {'a': 1, 'b': 2})]229" :>
          "00995e7cf9341ea7d8e59c72b2ce15e91a27914ed88f11ea57fb82c1612c5353")
    @@ ("[('k', {'a': 1, 'b': 2})]3066" :>
          "000e4ecdd066a2e33a40c7b4d30c4f5c8f226c1cf7677e66b0d9fe027328b4f8")
    @@ ("[('k', {'a': 1, 'b': 2})]37" :>
          "06ca2dfaf3e82a64c5edc36d7db871dfd6040aa065e2b32ee762707d55cf45e1")
    @@ ("[('k', {'a': 1, 'b': 2})]9416" :>
          "0000dc10277418a1c63cd0f04e8b685aa522079938b23208b33cc41de63782bf")
    @@ ("[('k', {'a': 1, 'b': 2})]999999" :>
          "d51bfb181b166e06221478ad32a581afe16510e5bc8f2fdcbbfb7d021e8051b8")
    @@ ("[('k', {'b': 2, 'a': 1})]" :>
          "7aacf54d16a7604a14582a6f84f2384d0693027fe0956d93b36b17c48bbc2a69")
    @@ ("[('k', {'b': 2, 'a': 1})]0" :>
          "7ad6bfc5d0470ecee7d8f88eb73b82967cdd82f3e723140cedd0faa851ca5e5a")
    @@ ("[('k', {'b': 2, 'a': 1})]1000000" :>
          "fce99755d606df8f7a84b0d81b60b47d0d1160aa5a80998e3410fbdbdce008ff")
    @@ ("[('k', {'b': 2, 'a': 1})]11" :>
          "0bad44ecef589044d7494eff661ed6cae167f29846569455a3e263dede63d187")
    @@ ("[('k', {'b': 2, 'a': 1})]2212" :>
          "000042d10438e7bec584235859cca4ad0e4472c18b7eef90811520e97c86137c")
    @@ ("[('k', {'b': 2, 'a': 1})]37" :>
          "0096dd66aec985e0938b1a1ff114e68fa6ccea2859b4a655839c70e865b79f7c")
    @@ ("[('k', {'b': 2, 'a': 1})]57803" :>
          "0000063037ea8f816679b88be50eb7de2fe053554b4c44bf565b6cd401f11a1a")
    @@ ("[('k', {'b': 2, 'a': 1})]999999" :>
          "216e2f3ed069f367f26d1d83e1a339f8ae8356aaf437f13f08d404642cebfd7e")
    @@ ("test" :>
          "9f86d081884c7d659a2feaa0c55ad015a3bf4f1b2b0b822cd15d6c15b0f00a08")
    @@ ("test0" :>
          "590c9f8430c7435807df8ba9a476e3f1295d46ef210f6efae2043a4c085a569e")
    @@ ("test1000000" :>
          "f8e56a82039525592f5cc0d1ab59bed4f909dbdac2f3ff9954a0ffc5f1b4e444")
    @@ ("test25" :>
          "0342840f6340d15691f4be1c0e0157fb0983992c4f436c18267d41dbe6bb74a2")
    @@ ("test304" :>
          "009fa371cd0b736ab80e8d55c5741944dd0e740bbd92c97808f740a03722576b")
    @@ ("test338" :>
          "00099816175096d3c2e85e557843d8fdfdd996659df43d16c596a79bfbe82d17")
    @@ ("test93721" :>
          "00001c54d3385d534b46d782840aec6ccc7db112d72131c09c83e8f611fc2348")
    @@ ("test999999" :>
          "2f588bc08d8a8717695aa81859e264ae6be3c421171c180defcba9f14865327f")

\* For each data string, the nonces 0..1000000 whose digest starts with more zeros
\* than the digest of every smaller nonce, and the last two nonces of the search;
\* the digest of a nonce between two listed ones starts with no more zeros than
\* that of the listed one before it (computed with hashlib).
ListedNonces ==
       ("5" :> {0, 1, 848, 20287, 96138, 999999, 1000000})
    @@ ("[('a', 1), ('b', 2)]" :> {0, 22, 296, 6716, 999999, 1000000})
    @@ ("[('a', 1)]" :> {0, 16, 62, 922, 10570, 279905, 999999, 1000000})
    @@ ("[('k', {'a': 1, 'b': 2})]" :> {0, 37, 229, 3066, 9416, 220003, 999999, 1000000})
    @@ ("[('k', {'b': 2, 'a': 1})]" :> {0, 11, 37, 2212, 57803, 999999, 1000000})
    @@ ("test" :> {0, 25, 304, 338, 93721, 999999, 1000000})

Sha256Hex(str) == Sha256Table[str]

\* hash_result.startswith(target)
StartsWith(str, prefix) ==
    Len(str) >= Len(prefix) /\ SubSeq(str, 1, Len(prefix)) = prefix

\* line 224: the bound on the nonce
MaxNonce == 1000000

\* a search that passes over the first candidate nonce and takes up at the one after
NextListed_Skip(data_string, n) ==
    LET later == {m \in ListedNonces[data_string] : m >= n}
        first == CHOOSE m \in later : \A k \in later : m <= k
        rest == IF later = {first} THEN later ELSE later \ {first}
    IN  CHOOSE m \in rest : \A k \in rest : m <= k

\* nonce += 1 (line 221), repeated over the nonces whose hash cannot meet a target:
\* the first listed nonce of the data string from n on
NextListed(data_string, n) ==
    LET later == {m \in ListedNonces[data_string] : m >= n}
    IN  CHOOSE m \in later : \A k \in later : m <= k

\* lines 197-225: the search, from `nonce` on.  Each step hashes one nonce, as the
\* loop does; the nonces up to the next listed one are hashed too and fail the test
\* of line 204, so the search moves on to it.  hashed counts the digests computed.
RECURSIVE Mine(_, _, _)
Mine(data_string, tgt, nonce) ==
    LET hash_result == Sha256Hex(data_string \o IntStr(nonce))
    IN  IF StartsWith(hash_result, tgt)
        THEN [found |-> TRUE, nonce |-> nonce, hash_result |-> hash_result,
              hashed |-> nonce + 1]
        ELSE IF nonce + 1 > MaxNonce
        THEN [found |-> FALSE, hashed |-> nonce + 1]
        ELSE Mine(data_string, tgt, NextListed(data_string, nonce + 1))

\* lines 207-214: the proof (mining_time and timestamp, which no check reads, left out)
ProofOf(data_string, mined, d) ==
    [data_hash |-> Sha256Hex(data_string),
     nonce |-> mined.nonce,
     proof_hash |-> mined.hash_result,
     difficulty |-> d]

\* generate_proof: the whole method
\* a call that leaves the target of the instance empty
SelfUnchanged_TargetCleared == difficulty' = difficulty /\ target' = ""

\* generate_proof and verify_proof read self.difficulty and self.target (lines 203,
\* 210) and assign no attribute
SelfUnchanged == UNCHANGED <<difficulty, target>>

GenerateProof(data) ==
    LET data_string == Canonical(data)
        mined == Mine(data_string, target, 0)
    IN  /\ IF mined.found
           THEN LET proof == ProofOf(data_string, mined, difficulty)
                IN  /\ last' = [op |-> "generate_proof", data |-> data,
                                hashed |-> mined.hashed,
                                ret |-> [returned |-> TRUE, proof |-> proof]]
                    /\ proof_slot' = Some([data |-> data, proof |-> proof])
           ELSE /\ last' = [op |-> "generate_proof", data |-> data,
                            hashed |-> mined.hashed,
                            ret |-> [returned |-> FALSE,
                                     raised |-> "ProofLock mining timeout"]]
                /\ UNCHANGED proof_slot
        /\ SelfUnchanged
        /\ UNCHANGED notPow

\* The proof argument of verify_proof as a Python value: a dict is its present
\* keys with their values, anything else is a value of another type.
PyNone == [type |-> "NoneType"]
ProofDict(fields) == [type |-> "dict", fields |-> fields]

\* the dict generate_proof returned
PyProof(proof) ==
    ProofDict([data_hash |-> PyStrOf(proof.data_hash),
               nonce |-> PyInt(proof.nonce),
               proof_hash |-> PyStrOf(proof.proof_hash),
               difficulty |-> PyInt(proof.difficulty)])

\* the result of evaluating an expression: a value, or an exception of some class
Value(v) == [ok |-> TRUE, val |-> v]
Raise(class) == [ok |-> FALSE, class |-> class]

\* proof[key]
Subscript(proof, key) ==
    IF proof.type # "dict" THEN Raise("TypeError")
    ELSE IF key \notin DOMAIN proof.fields THEN Raise("KeyError")
    ELSE Value(proof.fields[key])

\* lines 229-255, the body of the try: the three checks, in the order of the code
VerifyBody(data, proof) ==
    LET data_string == Canonical(data)
        data_hash == Subscript(proof, "data_hash")
        nonce == Subscript(proof, "nonce")
        proof_hash == Subscript(proof, "proof_hash")
        claimed == Subscript(proof, "difficulty")
    IN  IF ~data_hash.ok THEN data_hash
        ELSE IF PyStrOf(Sha256Hex(data_string)) # data_hash.val THEN Value(FALSE)
        ELSE IF ~nonce.ok THEN nonce
        ELSE IF ~proof_hash.ok THEN proof_hash
        ELSE IF PyStrOf(Sha256Hex(data_string \o PyStr(nonce.val))) # proof_hash.val
             THEN Value(FALSE)
        ELSE IF ~claimed.ok THEN claimed
        ELSE IF claimed.val.type # "int" THEN Raise("TypeError")
        ELSE IF ~StartsWith(proof_hash.val.val, Repeat("0", claimed.val.val))
             THEN Value(FALSE)
        ELSE Value(TRUE)

\* a handler that catches a missing key only
Catches_KeyErrorOnly(class) == class = "KeyError"

\* line 258, except Exception: KeyError and TypeError are subclasses of Exception
Catches(class) == class \in {"KeyError", "TypeError"}

\* verify_proof, lines 228-260: what the call does, return a bool or raise
VerifyOutcome(data, proof) ==
    LET body == VerifyBody(data, proof)
    IN  IF body.ok THEN [raised |-> None, value |-> body.val, caught |-> None]
        ELSE IF Catches(body.class)
        THEN [raised |-> None, value |-> FALSE, caught |-> Some(body.class)]
        ELSE [raised |-> Some(body.class)]

\* verify_proof on a proof generate_proof returned
VerifyResult(data, proof) == VerifyOutcome(data, PyProof(proof)).value

\* verify_proof on the proof the caller holds
VerifyProof(data) ==
    /\ proof_slot # None
    /\ LET held == TheVal(proof_slot)
       IN  last' = [op |-> "verify_proof", data |-> data, proof |-> held.proof,
                    made_for |-> held.data,
                    ret |-> VerifyResult(data, held.proof)]
    /\ SelfUnchanged
    /\ UNCHANGED proof_slot
    /\ UNCHANGED notPow

\* the field of the dict replaced, and removed
WithField(proof, key, value) ==
    ProofDict([k \in DOMAIN proof.fields \cup {key} |->
                  IF k = key THEN value ELSE proof.fields[k]])
WithoutField(proof, key) ==
    ProofDict([k \in DOMAIN proof.fields \ {key} |-> proof.fields[k]])

\* proof arguments a caller can make of a proof it holds: the proof itself, the
\* proof with a key missing, with a value of another type, and values that are no dict
ProofArgs(proof) ==
    LET genuine == PyProof(proof)
    IN  {genuine, PyNone, PyList(<<>>)}
        \cup {WithoutField(genuine, k) : k \in DOMAIN genuine.fields}
        \cup {WithField(genuine, k, PyNone) : k \in {"data_hash", "proof_hash", "difficulty"}}
        \cup {WithField(genuine, "nonce", PyStrOf(IntStr(proof.nonce))),
              WithField(genuine, "difficulty", PyStrOf(IntStr(proof.difficulty))),
              WithField(genuine, "difficulty", PyInt(proof.difficulty + 1)),
              WithField(genuine, "difficulty", PyInt(-1))}

\* verify_proof on a proof argument of the caller's making
VerifyGiven(data) ==
    /\ proof_slot # None
    /\ LET held == TheVal(proof_slot)
       IN  \E given \in ProofArgs(held.proof) :
              last' = [op |-> "verify_proof_given", data |-> data, given |-> given,
                       made_for |-> held.data,
                       ret |-> VerifyOutcome(data, given)]
    /\ SelfUnchanged
    /\ UNCHANGED proof_slot
    /\ UNCHANGED notPow

InitPow == \E d \in Difficulties : InitWith(d)

NextPow ==
    \/ \E data \in Payloads : GenerateProof(data)
    \/ \E data \in Payloads : VerifyProof(data)
    \/ \E data \in Payloads : VerifyGiven(data)

SpecPow == InitPow /\ [][NextPow]_vars

(***************************************************************************)
(* Claims about ProofLock                                                  *)
(***************************************************************************)
\* C7: for every payload and every difficulty in 1..5, generate_proof returns a
\* proof (it does not fail) and verify_proof of the payload and that proof is True.
C7_GenerateThenVerify ==
    (difficulty \in 1..5) =>
        /\ (last.op = "generate_proof") => last.ret.returned
        /\ (last.op = "verify_proof" /\ last.data = last.made_for) => last.ret

\* C8: verify_proof(p2, proof) is False for every proof generated for a payload p
\* (at a difficulty of 1 or more) and every payload p2 that is not equal to p,
\* p2 of another type included.
C8_OtherPayloadRejected ==
    (/\ last.op = "verify_proof"
     /\ last.proof.difficulty >= 1
     /\ ~PyEqual(last.data, last.made_for)) => ~last.ret

\* C9: when generate_proof fails with the mining timeout it has hashed at most
\* 1,000,000 candidate nonces (0..999,999), never more.
C9_TimeoutWithinBudget ==
    (last.op = "generate_proof" /\ ~last.ret.returned) => last.hashed <= MaxNonce

\* the three checks of a verification, as conditions on the payload and the proof
DataHashMatches(data, proof) ==
    proof.fields.data_hash = PyStrOf(Sha256Hex(Canonical(data)))
ProofHashMatches(data, proof) ==
    proof.fields.proof_hash
        = PyStrOf(Sha256Hex(Canonical(data) \o PyStr(proof.fields.nonce)))
MeetsDifficulty(proof) ==
    /\ proof.fields.difficulty.type = "int"
    /\ StartsWith(proof.fields.proof_hash.val, Repeat("0", proof.fields.difficulty.val))
WellFormed(proof) ==
    /\ proof.type = "dict"
    /\ DOMAIN proof.fields = {"data_hash", "nonce", "proof_hash", "difficulty"}

\* C20: verify_proof(data, proof) returns True exactly when the three checks pass
\* (data_hash is the hash of the payload, proof_hash is the hash of the payload with
\* the nonce, proof_hash starts with the claimed number of zeros), and for every
\* payload and every proof, one with missing or ill-typed fields included, it
\* returns a bool and raises nothing.
C20_VerifyIsTotal ==
    (last.op = "verify_proof_given") =>
        /\ last.ret.raised = None
        /\ last.ret.value \in BOOLEAN
        /\ last.ret.value <=> (/\ WellFormed(last.given)
                               /\ DataHashMatches(last.data, last.given)
                               /\ ProofHashMatches(last.data, last.given)
                               /\ MeetsDifficulty(last.given))

C20_Witness ==
    /\ last.op = "verify_proof_given"
    /\ last.data = last.made_for
    /\ last.given.type = "dict"
    /\ "difficulty" \in DOMAIN last.given.fields
    /\ last.given.fields.difficulty = PyNone
    /\ last.ret.raised = None
    /\ last.ret.caught = Some("TypeError")
    /\ ~last.ret.value

\* C21: two dict payloads that hold the same key/value pairs, at the top level and
\* inside nested dicts, inserted in different orders have the same data_hash, and a
\* proof generated for one verifies for the other.
C21_OrderIndependent ==
    (/\ last.op = "verify_proof"
     /\ last.data.type = "dict"
     /\ last.made_for.type = "dict"
     /\ PyEqual(last.data, last.made_for))
    => /\ Sha256Hex(Canonical(last.data)) = last.proof.data_hash
       /\ last.ret

\* C22: the proof generate_proof returns has the smallest nonce n >= 0 for which the
\* hash of the payload string followed by n starts with difficulty zeros, that hash
\* as proof_hash, the hash of the payload string as data_hash and the configured
\* difficulty.  Among the nonces below the returned one only the listed ones can
\* meet a target: every other has fewer leading zeros than a listed one before it.
C22_SmallestNonce ==
    (last.op = "generate_proof" /\ last.ret.returned) =>
        LET proof == last.ret.proof
            data_string == Canonical(last.data)
            Meets(n) == StartsWith(Sha256Hex(data_string \o IntStr(n)),
                                   Repeat("0", difficulty))
        IN  /\ proof.nonce >= 0
            /\ Meets(proof.nonce)
            /\ \A n \in ListedNonces[data_string] : n < proof.nonce => ~Meets(n)
            /\ proof.proof_hash = Sha256Hex(data_string \o IntStr(proof.nonce))
            /\ proof.data_hash = Sha256Hex(data_string)
            /\ proof.difficulty = difficulty

C22_Witness ==
    /\ last.op = "generate_proof"
    /\ last.ret.returned
    /\ difficulty = 3
    /\ last.data = PyStrOf("test")
    /\ last.ret.proof.nonce > 25
    /\ StartsWith(last.ret.proof.proof_hash, "000")

\* C30: verify_proof returns False for every proof whose difficulty is 0 or less:
\* every proof it accepts claims a difficulty of at least 1.
C30_ZeroDifficultyRejected ==
    /\ (last.op = "verify_proof" /\ last.proof.difficulty < 1) => ~last.ret
    /\ (/\ last.op = "verify_proof_given"
        /\ WellFormed(last.given)
        /\ last.given.fields.difficulty.type = "int"
        /\ last.given.fields.difficulty.val < 1) => ~last.ret.value

(***************************************************************************)
(* MeshOrchestrator.  The methods are coroutines of one event loop: a      *)
(* coroutine runs alone from one await to the next, and the only await     *)
(* that suspends is the sleep of _simulate_node_vote.                      *)
(***************************************************************************)
MaxRegistrations == 4   \* register_node calls explored per run
MaxProposals == 2       \* achieve_consensus calls explored per run

NodeIds == {"node-a", "node-b", "node-c"}

\* consensus_threshold = 0.67 (line 22), as hundredths
ThresholdPercent == 67

\* the position of the key in the dict, 0 when it is absent
KeyIndex(dict, key) ==
    IF \E i \in 1..Len(dict) : dict[i][1] = key
    THEN CHOOSE i \in 1..Len(dict) : dict[i][1] = key
    ELSE 0

\* a store that adds an entry even when the key is present
DictSet_AlwaysAppend(dict, key, value) == Append(dict, <<key, value>>)

\* dict[key] = value: a present key keeps its place, a new one goes last
DictSet(dict, key, value) ==
    IF KeyIndex(dict, key) = 0
    THEN Append(dict, <<key, value>>)
    ELSE [dict EXCEPT ![KeyIndex(dict, key)] = <<key, value>>]

\* [n for n in self.nodes.values() if n["status"] == "active"], as references
ActiveNodes(dict, dicts) ==
    LET refs == [i \in 1..Len(dict) |-> dict[i][2]]
    IN  SelectSeq(refs, LAMBDA r : dicts[r].status = "active")

\* lines 33-38: the node dict (info and last_seen, which no check reads, left out)
NewNode == [status |-> "active", consensus_votes |-> 0]

\* register_node: the whole coroutine (it awaits nothing)
RegisterNode(node_id) ==
    LET ref == Len(node_dicts) + 1
        dicts == Append(node_dicts, NewNode)
        registry == DictSet(nodes, node_id, ref)
    IN  /\ Len(node_dicts) < MaxRegistrations
        /\ node_dicts' = dicts
        /\ nodes' = registry
        /\ mesh_stats' = [mesh_stats EXCEPT
                             !.active_nodes = Len(ActiveNodes(registry, dicts))]
        /\ last' = [op |-> "register_node", node_id |-> node_id,
                    ret |-> [status |-> "registered", node_id |-> node_id]]
        /\ UNCHANGED <<coros, completed, votes_tallied>>
        /\ UNCHANGED notMesh

\* a threshold count that rounds up
RequiredVotes_RoundUp(n) ==
    LET product == (n * ThresholdPercent + 99) \div 100
    IN  IF product > 1 THEN product ELSE 1

\* line 53: max(1, int(len(active_nodes) * self.consensus_threshold)).  The double
\* n * 0.67 truncates to (67 n) div 100 for every n up to 200000 (computed in Python).
RequiredVotes(n) ==
    LET product == (n * ThresholdPercent) \div 100
    IN  IF product > 1 THEN product ELSE 1

\* lines 63-83: the result of the tally
Tally(votes, required_votes, total_nodes) ==
    [status |-> "consensus_complete",
     consensus |-> votes >= required_votes,
     votes |-> votes,
     required_votes |-> required_votes,
     total_nodes |-> total_nodes]

\* counters that count an achieved consensus as failed and a failed one as achieved
CountOutcome_Swapped(stats, consensus_achieved) ==
    IF consensus_achieved
    THEN [stats EXCEPT !.failed_consensus = @ + 1]
    ELSE [stats EXCEPT !.consensus_achieved = @ + 1]

\* lines 65-73: one of the two counters goes up by one
CountOutcome(stats, consensus_achieved) ==
    IF consensus_achieved
    THEN [stats EXCEPT !.consensus_achieved = @ + 1]
    ELSE [stats EXCEPT !.failed_consensus = @ + 1]

\* a registry that is never found empty
NoNodes_Never(dict) == FALSE

\* line 49: not self.nodes
NoNodes(dict) == Len(dict) = 0

ProposalsStarted ==
    mesh_stats.consensus_achieved + mesh_stats.failed_consensus
    + Cardinality({c \in Tasks : coros[c].pc # "idle"})

\* the number of registered nodes whose status is active
ActiveCount ==
    Cardinality({i \in 1..Len(nodes) : node_dicts[nodes[i][2]].status = "active"})

\* achieve_consensus from the call to the first await (lines 49-59), or to the
\* return when there is nothing to await
ConsensusStart(c) ==
    /\ coros[c].pc = "idle"
    /\ ProposalsStarted < MaxProposals
    /\ IF NoNodes(nodes)
       THEN /\ last' = [op |-> "achieve_consensus", task |-> c,
                        active_at_start |-> ActiveCount,
                        stats_before |-> mesh_stats,
                        dicts_before |-> node_dicts,
                        ret |-> [status |-> "no_nodes", consensus |-> FALSE]]
            /\ UNCHANGED <<coros, mesh_stats, completed, votes_tallied>>
       ELSE LET active_nodes == ActiveNodes(nodes, node_dicts)
                required_votes == RequiredVotes(Len(active_nodes))
            IN  IF Len(active_nodes) = 0
                THEN LET result == Tally(0, required_votes, 0)
                     IN  /\ mesh_stats' = CountOutcome(mesh_stats, result.consensus)
                         /\ UNCHANGED <<completed, votes_tallied>>
                         /\ last' = [op |-> "achieve_consensus", task |-> c,
                                     active_at_start |-> ActiveCount,
                                     stats_before |-> mesh_stats,
                                     dicts_before |-> node_dicts,
                                     ret |-> result]
                         /\ UNCHANGED coros
                ELSE /\ coros' = [coros EXCEPT ![c] =
                                     [pc |-> "voting",
                                      active_nodes |-> active_nodes,
                                      required_votes |-> required_votes,
                                      votes |-> 0,
                                      node |-> 1,
                                      active_at_start |-> ActiveCount]]
                     /\ UNCHANGED <<last, mesh_stats, completed, votes_tallied>>
    /\ UNCHANGED <<nodes, node_dicts>>
    /\ UNCHANGED notMesh

\* a voter that always votes no
SimulateNodeVote_No == FALSE

\* _simulate_node_vote (lines 85-88): always True
SimulateNodeVote == TRUE

\* achieve_consensus from the return of the awaited vote to the next await
\* (lines 59-61), or through the tally to the return (lines 63-83)
ConsensusResume(c) ==
    LET f == coros[c]
        node == f.active_nodes[f.node]
        votes == IF SimulateNodeVote THEN f.votes + 1 ELSE f.votes
        dicts == IF SimulateNodeVote
                 THEN [node_dicts EXCEPT ![node].consensus_votes = @ + 1]
                 ELSE node_dicts
    IN  /\ f.pc = "voting"
        /\ node_dicts' = dicts
        /\ IF f.node < Len(f.active_nodes)
           THEN /\ coros' = [coros EXCEPT ![c].votes = votes, ![c].node = @ + 1]
                /\ UNCHANGED <<last, mesh_stats, completed, votes_tallied>>
           ELSE LET result == Tally(votes, f.required_votes, Len(f.active_nodes))
                IN  /\ mesh_stats' = CountOutcome(mesh_stats, result.consensus)
                    /\ completed' = completed + 1
                    /\ votes_tallied' = votes_tallied + result.votes
                    /\ last' = [op |-> "achieve_consensus", task |-> c,
                                active_at_start |-> f.active_at_start,
                                stats_before |-> mesh_stats,
                                dicts_before |-> node_dicts,
                                ret |-> result]
                    /\ coros' = [coros EXCEPT ![c] = IdleFrame]
        /\ UNCHANGED nodes
        /\ UNCHANGED notMesh

NextMesh ==
    \/ \E n \in NodeIds : RegisterNode(n)
    \/ \E c \in Tasks : ConsensusStart(c)
    \/ \E c \in Tasks : ConsensusResume(c)

SpecMesh == Init /\ [][NextMesh]_vars

\* ProofLock used next to the other components: a key is issued, a request is
\* admitted and a node is registered at some point between the proof calls
SharedPayloads == {PyStrOf("test"), DictAB}

NextPowShared ==
    \/ \E k \in TokenUrlsafe(api_keys) : api_keys = <<>> /\ GenerateApiKey("alice", None, k)
    \/ rate_limits = <<>> /\ ApplyRateLimiting("10.0.0.1", 1, 1)
    \/ nodes = <<>> /\ RegisterNode("node-a")
    \/ \E data \in SharedPayloads : GenerateProof(data)
    \/ \E data \in SharedPayloads : VerifyProof(data)
    \/ \E data \in SharedPayloads : VerifyGiven(data)

SpecPowShared == InitPow /\ [][NextPowShared]_vars

(***************************************************************************)
(* smart_cards.py, SmartCardOrchestrator.process_card: coroutines on one   *)
(* event loop.  A coroutine runs until it awaits; the only await that      *)
(* suspends is the sleep of SmartNarrativeCard.process (line 38).          *)
(***************************************************************************)
MaxCardCalls == 3     \* process_card calls explored per run

\* card_data["id"], None when the key is absent, and card_data["operation"]
CardIdArgs == {None, Some("card-1"), Some("card-2")}
Operations == {"health_check", "test", "archive"}

\* values of secrets.token_hex(8): random, so never one that was drawn before
TokenHexOrder == <<"9f1c2a7b3d4e5f60", "0a1b2c3d4e5f6071", "1b2c3d4e5f607182",
                   "2c3d4e5f60718293", "3d4e5f60718293a4">>

\* lines 41-46 and 59-93: the status of the result of the operation
StatusOf(operation) ==
    CASE operation = "health_check" -> "healthy"
      [] operation = "test" -> "success"
      [] OTHER -> "processed"

\* lines 133-137: total_processed and one of the two outcome counters go up
\* (average_processing_time, which no check reads, is left out)
CountCard(stats, status) ==
    LET counted == [stats EXCEPT !.total_processed = @ + 1]
    IN  IF status \in {"success", "healthy", "processed"}
        THEN [counted EXCEPT !.successful_processing = @ + 1]
        ELSE [counted EXCEPT !.failed_processing = @ + 1]

\* process_card from the call to the await of line 38: the card is created
\* (lines 23-30) and stored in active_cards (line 126)
ProcessCardStart(c, id_arg, operation) ==
    LET ref == Len(cards) + 1
        card_id == IF id_arg = None THEN TokenHexOrder[ref] ELSE TheVal(id_arg)
    IN  /\ card_tasks[c].pc = "idle"
        /\ Len(cards) < MaxCardCalls
        /\ cards' = Append(cards, [card_id |-> card_id, operation |-> operation,
                                   processed |-> FALSE, result |-> None])
        /\ active_cards' = StoreKey(active_cards, card_id, ref)
        /\ card_tasks' = [card_tasks EXCEPT ![c] = [pc |-> "processing", card |-> ref]]
        /\ UNCHANGED <<processed_cards, card_stats, card_done, last>>
        /\ UNCHANGED notCards

\* process_card from the return of the sleep to its end: the card is processed
\* (lines 41-52), the statistics are updated (133-137), the card is stored in
\* processed_cards (147) and deleted from active_cards (148), which raises
\* KeyError when the key is not there
ProcessCardResume(c) ==
    LET ref == card_tasks[c].card
        card == cards[ref]
        status == StatusOf(card.operation)
        present == card.card_id \in DOMAIN active_cards
    IN  /\ card_tasks[c].pc = "processing"
        /\ cards' = [cards EXCEPT ![ref].processed = TRUE, ![ref].result = Some(status)]
        /\ card_stats' = CountCard(card_stats, status)
        /\ processed_cards' = StoreKey(processed_cards, card.card_id, ref)
        /\ active_cards' = IF present THEN DelKey(active_cards, card.card_id)
                           ELSE active_cards
        /\ last' = [op |-> "process_card", task |-> c, card_id |-> card.card_id,
                    ret |-> IF present THEN Returned(status) ELSE Raised("KeyError")]
        /\ card_done' = card_done + 1
        /\ card_tasks' = [card_tasks EXCEPT ![c] = IdleFrame]
        /\ UNCHANGED notCards

NextCards ==
    \/ \E c \in Tasks, i \in CardIdArgs, o \in Operations : ProcessCardStart(c, i, o)
    \/ \E c \in Tasks : ProcessCardResume(c)

SpecCards == Init /\ [][NextCards]_vars

(***************************************************************************)
(* Claims about MeshOrchestrator                                           *)
(***************************************************************************)
\* floor(n * 67 / 100): the r with r <= n * 0.67 < r + 1
FloorOfThreshold(n) ==
    CHOOSE r \in 0..n : r * 100 <= n * 67 /\ n * 67 < (r + 1) * 100

\* C10: every result of achieve_consensus made with n >= 1 active nodes reports
\* required_votes = max(1, floor(n * 0.67)), n being the number of active nodes when
\* the call started; 3 active nodes give required_votes = 2.
C10_RequiredVotes ==
    (last.op = "achieve_consensus" /\ last.active_at_start >= 1) =>
        LET n == last.active_at_start
            floor == FloorOfThreshold(n)
        IN  /\ last.ret.required_votes = IF floor > 1 THEN floor ELSE 1
            /\ (n = 3) => last.ret.required_votes = 2

C10_Witness ==
    /\ last.op = "achieve_consensus"
    /\ last.active_at_start = 3
    /\ last.ret.required_votes = 2
    /\ last.ret.votes = 3
    /\ last.ret.consensus

\* C11: every achieve_consensus call that found at least one active node returns
\* consensus = (votes >= required_votes) and raises exactly one of the two counters
\* by exactly one, consensus_achieved when consensus is true and failed_consensus
\* otherwise; at all times consensus_achieved + failed_consensus is the number of
\* completed calls that found active nodes.
C11_OneCounterPerProposal ==
    /\ mesh_stats.consensus_achieved + mesh_stats.failed_consensus = completed
    /\ (last.op = "achieve_consensus" /\ last.active_at_start >= 1) =>
           LET before == last.stats_before
               up == IF last.ret.consensus THEN <<1, 0>> ELSE <<0, 1>>
           IN  /\ last.ret.consensus = (last.ret.votes >= last.ret.required_votes)
               /\ mesh_stats.consensus_achieved = before.consensus_achieved + up[1]
               /\ mesh_stats.failed_consensus = before.failed_consensus + up[2]

C11_Witness ==
    /\ last.op = "achieve_consensus"
    /\ last.active_at_start >= 1
    /\ last.ret.consensus
    /\ last.stats_before.consensus_achieved = 1
    /\ mesh_stats.consensus_achieved = 2
    /\ completed = 2

\* C12: an achieve_consensus call made with zero active nodes returns status
\* no_nodes with consensus false, and leaves consensus_achieved, failed_consensus
\* and the consensus_votes of every node as they were.
C12_NoActiveNodes ==
    (last.op = "achieve_consensus" /\ last.active_at_start = 0) =>
        /\ last.ret = [status |-> "no_nodes", consensus |-> FALSE]
        /\ mesh_stats.consensus_achieved = last.stats_before.consensus_achieved
        /\ mesh_stats.failed_consensus = last.stats_before.failed_consensus
        /\ node_dicts = last.dicts_before

C12_Witness ==
    /\ last.op = "achieve_consensus"
    /\ last.active_at_start = 0
    /\ last.ret.status = "no_nodes"
    /\ mesh_stats.consensus_achieved = 0
    /\ mesh_stats.failed_consensus = 0

\* the node dict registered under node_id
NodeOf(registry, dicts, node_id) == dicts[registry[KeyIndex(registry, node_id)][2]]

\* C13: register_node for a node_id that is already registered keeps the node
\* active and leaves its consensus_votes as they were, whatever proposals ran before.
C13_ReregisterKeepsVotes ==
    [][\A n \in NodeIds :
          (/\ Len(node_dicts') = Len(node_dicts) + 1
           /\ last'.op = "register_node"
           /\ last'.node_id = n
           /\ KeyIndex(nodes, n) # 0)
          => /\ NodeOf(nodes', node_dicts', n).status = "active"
             /\ NodeOf(nodes', node_dicts', n).consensus_votes
                    = NodeOf(nodes, node_dicts, n).consensus_votes]_vars

\* the sum of consensus_votes over the nodes of the registry
RECURSIVE RegistryVotes(_, _, _)
RegistryVotes(registry, dicts, i) ==
    IF i = 0 THEN 0
    ELSE dicts[registry[i][2]].consensus_votes + RegistryVotes(registry, dicts, i - 1)

\* C31: once every achieve_consensus call has completed, the consensus_votes of the
\* registered nodes add up to the votes the completed calls returned, whatever the
\* interleaving of the calls with each other and with register_node.
C31_VotesReachRegistry ==
    (\A c \in Tasks : coros[c].pc = "idle")
        => RegistryVotes(nodes, node_dicts, Len(nodes)) = votes_tallied

\* C34: with the built-in voter every achieve_consensus call that finds a node
\* returns votes equal to the number of active nodes it found and consensus True,
\* and failed_consensus stays 0.
C34_AlwaysUnanimous ==
    /\ mesh_stats.failed_consensus = 0
    /\ (last.op = "achieve_consensus" /\ last.ret.status = "consensus_complete") =>
           /\ last.ret.votes = last.active_at_start
           /\ last.ret.total_nodes = last.active_at_start
           /\ last.ret.consensus

\* a call that ran while another node was registered and another call voted
C34_Witness ==
    /\ last.op = "achieve_consensus"
    /\ last.ret.status = "consensus_complete"
    /\ last.ret.votes = 2
    /\ last.ret.required_votes = 1
    /\ ActiveCount = 3
    /\ mesh_stats.consensus_achieved = 2

\* C35: mesh_stats.active_nodes is the number of registered nodes whose status is
\* active after every register_node call, and a register_node call for a node_id
\* that is registered already leaves it as it was.
C35_ActiveNodesCounted ==
    /\ [](last.op = "register_node" => mesh_stats.active_nodes = ActiveCount)
    /\ [][(/\ Len(node_dicts') = Len(node_dicts) + 1
           /\ KeyIndex(nodes, last'.node_id) # 0)
          => mesh_stats'.active_nodes = mesh_stats.active_nodes]_vars

\* a node registered for the second time with two nodes in the registry
C35_Witness ==
    /\ last.op = "register_node"
    /\ Len(node_dicts) = 3
    /\ Len(nodes) = 2
    /\ mesh_stats.active_nodes = 2

\* the calls of ProofLock
ProofCalls == {"generate_proof", "verify_proof", "verify_proof_given"}

\* C33: a generate_proof call, whether it returns a proof or fails with the mining
\* timeout, and a verify_proof call change neither the difficulty and target of the
\* ProofLock nor any state of the API keys, the event log, the rate limits and the mesh.
C33_ProofCallsMutateNothing ==
    [][(last'.op \in ProofCalls) =>
          /\ difficulty' = difficulty
          /\ target' = target
          /\ UNCHANGED <<api_keys, security_events, rate_limits>>
          /\ UNCHANGED <<nodes, node_dicts, mesh_stats>>]_vars

\* a mining timeout with a key issued, a request admitted and a node registered
C33_Witness ==
    /\ last.op = "generate_proof"
    /\ ~last.ret.returned
    /\ api_keys # <<>>
    /\ rate_limits # <<>>
    /\ nodes # <<>>

\* C38: under every interleaving of process_card calls, two calls with the same id
\* included, every call returns a result and raises nothing, and once all calls
\* have completed active_cards is empty and total_processed is the sum of
\* successful_processing and failed_processing and the number of calls.
C38_EveryCallReturns ==
    /\ (last.op = "process_card") => last.ret.returned
    /\ (\A c \in Tasks : card_tasks[c].pc = "idle") =>
           /\ active_cards = <<>>
           /\ card_stats.total_processed
                  = card_stats.successful_processing + card_stats.failed_processing
           /\ card_stats.total_processed = card_done

====
